---- MODULE Spec2Model ----
(***************************************************************************)
(* State-machine model of the Dell EMC storage modules of this repository: *)
(*   PowerMax host group, masking view, snapshot;                          *)
(*   Unity consistency group, volume.                                      *)
(* Every module is one process invocation: perform_module_operation reads  *)
(* the array, decides, issues SDK calls and ends in exit_json or           *)
(* fail_json.  The array is the only state that survives an invocation.    *)
(*                                                                         *)
(* Python values are encoded as follows.  None and "" for a string         *)
(* parameter are the strings "None" and "".  A list parameter that the     *)
(* code only ever uses through set operations and truthiness is a set      *)
(* (None and [] are both the empty set, the code does not tell them        *)
(* apart).  A dict is a function from keys to values.  The Python booleans *)
(* inside the host_flags dict are the strings "bTrue" and "bFalse", so     *)
(* that they stay distinct from the strings 'true' and 'false'.            *)
(***************************************************************************)
EXTENDS Integers, Sequences, FiniteSets, TLC

VARIABLES
    module,        \* which module the invocations of this behaviour belong to
    hostgroups,    \* PowerMax array: host group name -> host group
    maskingviews,  \* PowerMax array: masking view name -> masking view
    snapshots,     \* PowerMax array: snapshot name -> generations
    cgs,           \* Unity array: consistency group name -> group
    luns,          \* Unity array: volume name -> volume
    pc,            \* "idle": no invocation observed yet; "ran": one finished
    last           \* the observation of the invocation that finished last

vars == <<module, hostgroups, maskingviews, snapshots, cgs, luns, pc, last>>

(***************************************************************************)
(* Bounds                                                                  *)
(***************************************************************************)
NumHosts == 3

(***************************************************************************)
(* Run context shared by the five modules.                                 *)
(*   status  "running" until exit_json ("ok") or fail_json ("failed")      *)
(*   changed the local `changed` / result['changed'] value                 *)
(*   calls   the mutating SDK calls issued so far, with their outcome      *)
(*   steps   the value each executed step function returned                *)
(***************************************************************************)
NoneV == "None"

Faults == {"none", "lookup", "call"}

Running(c) == c.status = "running"

fail_json(c) == [c EXCEPT !.status = "failed"]

exit_json(c, changed) == [c EXCEPT !.status = "ok", !.changed = changed]

Call(op, kind, target, members, attrs, new_name, ok) ==
    [op |-> op, kind |-> kind, target |-> target, members |-> members,
     attrs |-> attrs, new_name |-> new_name, ok |-> ok]

Issue(c, call) == [c EXCEPT !.calls = Append(@, call)]

Step(c, name, ret) == [c EXCEPT !.steps = Append(@, [step |-> name, ret |-> ret])]

\* the next statement of a handler: not reached once fail_json or exit_json
\* has ended the invocation
Then(c, statement(_)) == IF Running(c) THEN statement(c) ELSE c

EmptyDict == [k \in {} |-> NoneV]

(***************************************************************************)
(* PowerMax host group module                                              *)
(***************************************************************************)
Hosts == 1..NumHosts

\* the hosts that exist on the array; the last host id names no host
ArrayHosts == 1..(NumHosts - 1)

HostGroupNames == {"hg1", "hg2"}

host_flags_list == {"volume_set_addressing", "environ_set",
                    "disable_q_reset_on_ua", "openvms",
                    "avoid_reset_broadcast", "scsi_3",
                    "spc2_protocol_version", "scsi_support1"}

FlagKeys == host_flags_list \cup {"consistent_lun"}

\* values a playbook can give a host flag: YAML booleans and strings
FlagValues == {"bTrue", "bFalse", "true", "True", "false", "False",
               "unset", "Unset", "yes"}

\* the entries _set_to_enable, _set_to_disable and _set_to_default store
FlagEnabled == [enabled |-> TRUE, override |-> TRUE]

FlagDisabled == [enabled |-> FALSE, override |-> TRUE]

FlagDefault == [enabled |-> FALSE, override |-> FALSE]

\* the branch _create_host_flags_dict takes for one flag of host_flags_list
create_flag_value(received_host_flags, host_flag_name) ==
    IF \/ host_flag_name \notin DOMAIN received_host_flags
       \/ received_host_flags[host_flag_name] \in {"unset", "Unset"}
    THEN FlagDefault
    ELSE IF received_host_flags[host_flag_name] \in {"bFalse", "false", "False"}
    THEN FlagDisabled
    ELSE FlagEnabled

create_consistent_lun(received_host_flags) ==
    IF \/ "consistent_lun" \notin DOMAIN received_host_flags
       \/ received_host_flags["consistent_lun"]
              \in {"bFalse", "unset", "Unset", "false", "False"}
    THEN FALSE
    ELSE TRUE

_create_host_flags_dict(received_host_flags) ==
    [k \in FlagKeys |->
        IF k = "consistent_lun"
        THEN [enabled |-> create_consistent_lun(received_host_flags),
              override |-> FALSE]
        ELSE create_flag_value(received_host_flags, k)]

\* a host group as the array reports it (get_hostgroup)
NoHostGroup ==
    [existed |-> FALSE, host |-> {}, enabled_flags |-> {},
     disabled_flags |-> {}, consistent_lun |-> FALSE, maskingview |-> FALSE]

_recreate_host_flag_dict(host) ==
    [k \in FlagKeys |->
        IF k = "consistent_lun"
        THEN [enabled |-> host.consistent_lun, override |-> FALSE]
        ELSE IF k \in host.disabled_flags THEN FlagDisabled
        ELSE IF k \in host.enabled_flags THEN FlagEnabled
        ELSE FlagDefault]

\* a mapping that takes every value that is not true for false
modify_flag_value_disables(value) ==
    IF value \in {"bTrue", "True", "true"} THEN FlagEnabled ELSE FlagDisabled

\* the branch modify_host_flags takes for one received flag
modify_flag_value(value) ==
    IF value \in {"bTrue", "True", "true"} THEN FlagEnabled
    ELSE IF value \in {"bFalse", "false", "False"} THEN FlagDisabled
    ELSE FlagDefault

modify_consistent_lun(value) ==
    IF value \in {"bFalse", "False", "false", "unset", "Unset"} THEN FALSE
    ELSE TRUE

\* new_flags_dict of modify_host_flags: the current flags overwritten by the
\* received ones
modify_new_flags_dict(current_flags, received_host_flags) ==
    [k \in DOMAIN current_flags \cup DOMAIN received_host_flags |->
        IF k \notin DOMAIN received_host_flags THEN current_flags[k]
        ELSE IF k = "consistent_lun"
        THEN [enabled |-> modify_consistent_lun(received_host_flags[k]),
              override |-> FALSE]
        ELSE modify_flag_value(received_host_flags[k])]


(***************************************************************************)
(* The PowerMax array behind the provisioning SDK, as far as the module    *)
(* relies on it.  Every operator gives the array after the call and        *)
(* whether the array accepts the call.                                     *)
(***************************************************************************)
\* a call whose exception is swallowed instead of ending the run
Mutate_swallowing(c, fault, call, accepted, arr2) ==
    LET ok == fault /= "call" /\ accepted
        c1 == Issue(c, [call EXCEPT !.ok = ok])
    IN  IF ok THEN [c1 EXCEPT !.arr = arr2] ELSE c1

Mutate(c, fault, call, accepted, arr2) ==
    LET ok == fault /= "call" /\ accepted
        c1 == Issue(c, [call EXCEPT !.ok = ok])
    IN  IF ok THEN [c1 EXCEPT !.arr = arr2] ELSE fail_json(c1)

FlagsOnArray(hg, flags_dict) ==
    [hg EXCEPT
        !.enabled_flags =
            {k \in host_flags_list :
                IF k \in DOMAIN flags_dict
                THEN flags_dict[k].override /\ flags_dict[k].enabled
                ELSE k \in hg.enabled_flags},
        !.disabled_flags =
            {k \in host_flags_list :
                IF k \in DOMAIN flags_dict
                THEN flags_dict[k].override /\ ~flags_dict[k].enabled
                ELSE k \in hg.disabled_flags},
        !.consistent_lun =
            IF "consistent_lun" \in DOMAIN flags_dict
            THEN flags_dict["consistent_lun"].enabled
            ELSE hg.consistent_lun]

provisioning_create_hostgroup(c, fault, op, hostgroup_name, host_flags, host_list) ==
    Mutate(c, fault,
           Call(op, "create", hostgroup_name, host_list, host_flags, NoneV, FALSE),
           ~c.arr[hostgroup_name].existed /\ host_list \subseteq ArrayHosts,
           [c.arr EXCEPT ![hostgroup_name] =
               FlagsOnArray([NoHostGroup EXCEPT !.existed = TRUE,
                                                !.host = host_list],
                            host_flags)])

provisioning_modify_hostgroup_add(c, fault, hostgroup_name, add_host_list) ==
    Mutate(c, fault,
           Call("modify_hostgroup", "add", hostgroup_name, add_host_list,
                EmptyDict, NoneV, FALSE),
           /\ c.arr[hostgroup_name].existed
           /\ add_host_list \subseteq ArrayHosts
           /\ add_host_list \cap c.arr[hostgroup_name].host = {},
           [c.arr EXCEPT ![hostgroup_name].host = @ \cup add_host_list])

provisioning_modify_hostgroup_remove(c, fault, hostgroup_name, remove_host_list) ==
    Mutate(c, fault,
           Call("modify_hostgroup", "remove", hostgroup_name, remove_host_list,
                EmptyDict, NoneV, FALSE),
           /\ c.arr[hostgroup_name].existed
           /\ remove_host_list \subseteq c.arr[hostgroup_name].host,
           [c.arr EXCEPT ![hostgroup_name].host = @ \ remove_host_list])

provisioning_modify_hostgroup_flags(c, fault, hostgroup_name, new_flags_dict) ==
    Mutate(c, fault,
           Call("modify_hostgroup", "modify", hostgroup_name, {},
                new_flags_dict, NoneV, FALSE),
           c.arr[hostgroup_name].existed,
           [c.arr EXCEPT ![hostgroup_name] = FlagsOnArray(@, new_flags_dict)])

provisioning_modify_hostgroup_rename(c, fault, hostgroup_name, new_name) ==
    Mutate(c, fault,
           Call("modify_hostgroup", "rename", hostgroup_name, {},
                EmptyDict, new_name, FALSE),
           c.arr[hostgroup_name].existed /\ ~c.arr[new_name].existed,
           [c.arr EXCEPT ![hostgroup_name] = NoHostGroup,
                         ![new_name] = c.arr[hostgroup_name]])

\* the array refuses to delete a host group that a masking view uses
provisioning_delete_hostgroup(c, fault, hostgroup_name) ==
    Mutate(c, fault,
           Call("delete_hostgroup", "delete", hostgroup_name, {},
                EmptyDict, NoneV, FALSE),
           c.arr[hostgroup_name].existed /\ ~c.arr[hostgroup_name].maskingview,
           [c.arr EXCEPT ![hostgroup_name] = NoHostGroup])

(***************************************************************************)
(* PowerMaxHostGroup                                                       *)
(***************************************************************************)
\* get_hostgroup: every exception of the SDK call is logged and None is
\* returned, as for a host group that does not exist
get_hostgroup(arr, hostgroup_name, fault) ==
    IF fault = "lookup" THEN NoHostGroup ELSE arr[hostgroup_name]

\* an add list that is the requested list as it came
_get_add_hosts_requested(existing, requested) == requested

_get_add_hosts(existing, requested) == (existing \cup requested) \ existing

_get_remove_hosts(existing, requested) == existing \cap requested

create_hostgroup(c, p, fault) ==
    LET emptyHostGroupFlag ==
            \/ p.hosts = {}
            \/ p.host_state = NoneV
            \/ p.host_state = "absent-in-group"
        new_host_flags_dict ==
            IF DOMAIN p.host_flags /= {}
            THEN _create_host_flags_dict(p.host_flags)
            ELSE EmptyDict
        done ==
            IF emptyHostGroupFlag
            THEN provisioning_create_hostgroup(c, fault, "create_host",
                     p.hostgroup_name, new_host_flags_dict, {})
            ELSE IF \E host \in p.hosts : host \notin ArrayHosts
            THEN fail_json(c)
            ELSE provisioning_create_hostgroup(c, fault, "create_hostgroup",
                     p.hostgroup_name, new_host_flags_dict, p.hosts)
    IN  IF Running(done)
        THEN [Step(done, "create_hostgroup", "True") EXCEPT !.changed = TRUE]
        ELSE Step(done, "create_hostgroup", "fail")

add_hosts_to_hostgroup(c, p, fault) ==
    LET hostgroup == get_hostgroup(c.arr, p.hostgroup_name, "none")
        existing_hosts == IF hostgroup.existed THEN hostgroup.host ELSE {}
        add_list == _get_add_hosts(existing_hosts, p.hosts)
    IN  IF p.hosts /= {} /\ p.hosts \subseteq existing_hosts
        THEN Step(c, "add_hosts_to_hostgroup", "False")
        ELSE IF Cardinality(add_list) > 0
        THEN LET done == provisioning_modify_hostgroup_add(
                             c, fault, p.hostgroup_name, add_list)
             IN  IF Running(done)
                 THEN [Step(done, "add_hosts_to_hostgroup", "True")
                          EXCEPT !.changed = TRUE]
                 ELSE Step(done, "add_hosts_to_hostgroup", "fail")
        ELSE Step(c, "add_hosts_to_hostgroup", "False")

remove_hosts_from_hostgroup(c, p, fault) ==
    LET hostgroup == get_hostgroup(c.arr, p.hostgroup_name, "none")
        existing_hosts == IF hostgroup.existed THEN hostgroup.host ELSE {}
        rem_list == _get_remove_hosts(existing_hosts, p.hosts)
    IN  IF existing_hosts = {}
        THEN Step(c, "remove_hosts_from_hostgroup", "False")
        ELSE IF Cardinality(rem_list) > 0
        THEN LET done == provisioning_modify_hostgroup_remove(
                             c, fault, p.hostgroup_name, rem_list)
             IN  IF Running(done)
                 THEN [Step(done, "remove_hosts_from_hostgroup", "True")
                          EXCEPT !.changed = TRUE]
                 ELSE Step(done, "remove_hosts_from_hostgroup", "fail")
        ELSE Step(c, "remove_hosts_from_hostgroup", "False")

\* when nothing differs the function ends the whole invocation with
\* exit_json(changed=False)
modify_host_flags(c, p, fault) ==
    LET current_flags ==
            _recreate_host_flag_dict(get_hostgroup(c.arr, p.hostgroup_name, "none"))
        new_flags_dict == modify_new_flags_dict(current_flags, p.host_flags)
    IN  IF new_flags_dict = current_flags
        THEN exit_json(Step(c, "modify_host_flags", "exit"), FALSE)
        ELSE LET done == provisioning_modify_hostgroup_flags(
                             c, fault, p.hostgroup_name, new_flags_dict)
             IN  IF Running(done)
                 THEN [Step(done, "modify_host_flags", "True")
                          EXCEPT !.changed = TRUE]
                 ELSE Step(done, "modify_host_flags", "fail")

\* a rename step without the comparison of the names
hostgroup_rename_always(hostGroupId, new_name) == TRUE

\* the rename step of perform_module_operation: only when the names differ
hostgroup_rename_required(hostGroupId, new_name) == hostGroupId /= new_name

rename_hostgroup(c, p, fault) ==
    LET done == provisioning_modify_hostgroup_rename(
                    c, fault, p.hostgroup_name, p.new_name)
    IN  IF Running(done)
        THEN [Step(done, "rename_hostgroup", "True") EXCEPT !.changed = TRUE]
        ELSE Step(done, "rename_hostgroup", "fail")

delete_hostgroup(c, p, fault) ==
    LET done == provisioning_delete_hostgroup(c, fault, p.hostgroup_name)
    IN  IF Running(done)
        THEN [Step(done, "delete_hostgroup", "True") EXCEPT !.changed = TRUE]
        ELSE Step(done, "delete_hostgroup", "fail")

NoDetails == [existed |-> FALSE]

Context(arr) ==
    [arr |-> arr, status |-> "running", changed |-> FALSE, calls |-> <<>>,
     steps |-> <<>>, details |-> NoDetails]

\* _create_result_dict followed by module.exit_json(**self.result)
hostgroup_create_result_dict(c, p, renamed) ==
    LET name == IF renamed THEN p.new_name ELSE p.hostgroup_name
    IN  [exit_json(c, c.changed) EXCEPT
            !.details = IF p.state = "absent" THEN NoDetails
                        ELSE get_hostgroup(c.arr, name, "none")]

\* perform_module_operation from the statement after get_hostgroup on:
\* hostgroup is what the lookup returned, arr the array the calls reach
hostgroup_reconcile(arr, hostgroup, p, fault) ==
    LET c1 == Then(Context(arr), LAMBDA c :
                IF p.state = "present" /\ ~hostgroup.existed
                   /\ p.hostgroup_name /= NoneV
                THEN create_hostgroup(c, p, fault) ELSE c)
        c2 == Then(c1, LAMBDA c :
                IF p.state = "present" /\ p.host_state = "present-in-group"
                   /\ hostgroup.existed /\ p.hosts /= {}
                THEN add_hosts_to_hostgroup(c, p, fault) ELSE c)
        c3 == Then(c2, LAMBDA c :
                IF p.state = "present" /\ p.host_state = "absent-in-group"
                   /\ hostgroup.existed /\ p.hosts /= {}
                THEN remove_hosts_from_hostgroup(c, p, fault) ELSE c)
        c4 == Then(c3, LAMBDA c :
                IF p.state = "present" /\ hostgroup.existed
                   /\ DOMAIN p.host_flags /= {}
                THEN modify_host_flags(c, p, fault) ELSE c)
        renaming == /\ p.state = "present" /\ hostgroup.existed
                    /\ p.new_name /= NoneV
                    /\ hostgroup_rename_required(p.hostgroup_name, p.new_name)
        c5 == Then(c4, LAMBDA c :
                IF renaming THEN rename_hostgroup(c, p, fault) ELSE c)
        c6 == Then(c5, LAMBDA c :
                IF p.state = "absent" /\ hostgroup.existed
                THEN delete_hostgroup(c, p, fault) ELSE c)
    IN  Then(c6, LAMBDA c : hostgroup_create_result_dict(c, p, renaming))

hostgroup_perform_module_operation(arr, p, fault) ==
    hostgroup_reconcile(arr, get_hostgroup(arr, p.hostgroup_name, fault),
                        p, fault)


(***************************************************************************)
(* Requests (module.params) and arrays the host group module is run on     *)
(***************************************************************************)
\* the flags requests and initial arrays range over
RunFlagNames == {"openvms"}

RunFlagValues == {"bTrue", "bFalse", "unset", "yes"}

HostFlagsParams ==
    UNION {[S -> RunFlagValues] : S \in SUBSET RunFlagNames}

HostGroupParams ==
    [hostgroup_name : {"hg1"},
     hosts : SUBSET Hosts,
     host_state : {NoneV, "present-in-group", "absent-in-group"},
     host_flags : HostFlagsParams,
     new_name : {NoneV} \cup HostGroupNames,
     state : {"present", "absent"}]

ArrayHostGroups ==
    {NoHostGroup} \cup
    [existed : {TRUE}, host : SUBSET ArrayHosts,
     enabled_flags : SUBSET RunFlagNames, disabled_flags : {{}},
     consistent_lun : {FALSE}, maskingview : BOOLEAN] \cup
    [existed : {TRUE}, host : SUBSET ArrayHosts,
     enabled_flags : {{}}, disabled_flags : SUBSET RunFlagNames,
     consistent_lun : {FALSE}, maskingview : BOOLEAN]

InitHostGroups ==
    {hgs \in [HostGroupNames -> ArrayHostGroups] : hgs["hg2"] = NoHostGroup}

NoHostGroups == [n \in HostGroupNames |-> NoHostGroup]

(***************************************************************************)
(* PowerMax masking view module                                            *)
(***************************************************************************)
MaskingViewNames == {"mv1", "mv2"}

\* a masking view as the array reports it; a key the array leaves out
\* ('hostId' or 'hostGroupId') is NoneV
NoMaskingView ==
    [existed |-> FALSE, portGroupId |-> NoneV, storageGroupId |-> NoneV,
     hostId |-> NoneV, hostGroupId |-> NoneV]

\* get_masking_view: every exception is logged and None is returned
get_masking_view(arr, mv_name, fault) ==
    IF fault = "lookup" THEN NoMaskingView ELSE arr[mv_name]

\* AnsibleModule(mutually_exclusive=[['host_name', 'hostgroup_name']])
\* an argument spec without the mutually exclusive pair
mutually_exclusive_unchecked(p) == FALSE

mutually_exclusive(p) == p.host_name /= NoneV /\ p.hostgroup_name /= NoneV

is_mv_changed(mv, p) ==
    \/ mv.portGroupId /= NoneV /\ p.portgroup_name /= NoneV
         /\ mv.portGroupId /= p.portgroup_name
    \/ mv.storageGroupId /= NoneV /\ p.sg_name /= NoneV
         /\ mv.storageGroupId /= p.sg_name
    \/ mv.hostId /= NoneV /\ p.host_name /= NoneV
         /\ mv.hostId /= p.host_name
    \/ mv.hostGroupId /= NoneV /\ p.hostgroup_name /= NoneV
         /\ mv.hostGroupId /= p.hostgroup_name
    \/ mv.hostId /= NoneV /\ p.hostgroup_name /= NoneV
    \/ mv.hostGroupId /= NoneV /\ p.host_name /= NoneV

MvAttrs(p) ==
    [portgroup_name |-> p.portgroup_name, sg_name |-> p.sg_name,
     host_name |-> p.host_name, hostgroup_name |-> p.hostgroup_name]

provisioning_create_masking_view(c, fault, p) ==
    Mutate(c, fault,
           Call("create_masking_view_existing_components", "create",
                p.mv_name, {}, MvAttrs(p), NoneV, FALSE),
           ~c.arr[p.mv_name].existed,
           [c.arr EXCEPT ![p.mv_name] =
               [existed |-> TRUE, portGroupId |-> p.portgroup_name,
                storageGroupId |-> p.sg_name, hostId |-> p.host_name,
                hostGroupId |-> p.hostgroup_name]])

provisioning_rename_masking_view(c, fault, mv_name, new_mv_name) ==
    Mutate(c, fault,
           Call("rename_masking_view", "rename", mv_name, {}, EmptyDict,
                new_mv_name, FALSE),
           c.arr[mv_name].existed /\ ~c.arr[new_mv_name].existed,
           [c.arr EXCEPT ![mv_name] = NoMaskingView,
                         ![new_mv_name] = c.arr[mv_name]])

provisioning_delete_masking_view(c, fault, mv_name) ==
    Mutate(c, fault,
           Call("delete_masking_view", "delete", mv_name, {}, EmptyDict,
                NoneV, FALSE),
           c.arr[mv_name].existed,
           [c.arr EXCEPT ![mv_name] = NoMaskingView])

create_masking_view(c, p, fault) ==
    IF p.host_name /= NoneV /\ p.hostgroup_name /= NoneV
    THEN Step(fail_json(c), "create_masking_view", "fail")
    ELSE IF \/ p.portgroup_name = NoneV
            \/ p.sg_name = NoneV
            \/ (p.host_name = NoneV /\ p.hostgroup_name = NoneV)
    THEN Step(fail_json(c), "create_masking_view", "fail")
    ELSE LET done == provisioning_create_masking_view(c, fault, p)
         IN  IF Running(done)
             THEN [Step(done, "create_masking_view", "True")
                      EXCEPT !.changed = TRUE]
             ELSE Step(done, "create_masking_view", "fail")

rename_masking_view(c, p, fault) ==
    IF p.mv_name = p.new_mv_name
    THEN Step(c, "rename_masking_view", "False")
    ELSE LET done == provisioning_rename_masking_view(
                         c, fault, p.mv_name, p.new_mv_name)
         IN  IF Running(done)
             THEN [Step(done, "rename_masking_view", "True")
                      EXCEPT !.changed = TRUE]
             ELSE Step(done, "rename_masking_view", "fail")

delete_masking_view(c, p, fault) ==
    LET done == provisioning_delete_masking_view(c, fault, p.mv_name)
    IN  IF Running(done)
        THEN [Step(done, "delete_masking_view", "True") EXCEPT !.changed = TRUE]
        ELSE Step(done, "delete_masking_view", "fail")

\* result['changed'] is the disjunction of the three step results, which
\* is what c.changed accumulates
maskingview_perform_module_operation(arr, p, fault) ==
    LET masking_view == get_masking_view(arr, p.mv_name, fault)
        c0 == Then(Context(arr), LAMBDA c :
                IF mutually_exclusive(p) THEN fail_json(c)
                ELSE IF masking_view.existed /\ is_mv_changed(masking_view, p)
                THEN Step(fail_json(c), "is_mv_changed", "fail")
                ELSE c)
        c1 == Then(c0, LAMBDA c :
                IF p.state = "present" /\ ~masking_view.existed
                   /\ p.new_mv_name = NoneV /\ p.mv_name /= NoneV
                THEN create_masking_view(c, p, fault) ELSE c)
        renaming == p.state = "present" /\ masking_view.existed
                    /\ p.new_mv_name /= NoneV
        c2 == Then(c1, LAMBDA c :
                IF renaming THEN rename_masking_view(c, p, fault) ELSE c)
        c3 == Then(c2, LAMBDA c :
                IF p.state = "absent" /\ masking_view.existed
                THEN delete_masking_view(c, p, fault) ELSE c)
        mv_name == IF renaming THEN p.new_mv_name ELSE p.mv_name
    IN  Then(c3, LAMBDA c :
            [exit_json(c, c.changed) EXCEPT
                !.details =
                    IF p.state = "present"
                       /\ (masking_view.existed \/ c.changed)
                    THEN get_masking_view(c.arr, mv_name, "none")
                    ELSE NoDetails])

MaskingViewParams ==
    [mv_name : {"mv1"},
     portgroup_name : {NoneV, "pg1", "pg2"},
     sg_name : {NoneV, "sg1", "sg2"},
     host_name : {NoneV, "host1", "host2"},
     hostgroup_name : {NoneV, "hg1"},
     new_mv_name : {NoneV} \cup MaskingViewNames,
     state : {"present", "absent"}]

ArrayMaskingViews ==
    {NoMaskingView} \cup
    [existed : {TRUE}, portGroupId : {"pg1", "pg2"},
     storageGroupId : {"sg1", "sg2"}, hostId : {"host1", "host2"},
     hostGroupId : {NoneV}] \cup
    [existed : {TRUE}, portGroupId : {"pg1", "pg2"},
     storageGroupId : {"sg1", "sg2"}, hostId : {NoneV},
     hostGroupId : {"hg1"}]

InitMaskingViews ==
    {mvs \in [MaskingViewNames -> ArrayMaskingViews] :
        mvs["mv2"] \in {NoMaskingView,
                        [existed |-> TRUE, portGroupId |-> "pg1",
                         storageGroupId |-> "sg1", hostId |-> "host1",
                         hostGroupId |-> NoneV]}}

NoMaskingViews == [n \in MaskingViewNames |-> NoMaskingView]

(***************************************************************************)
(* PowerMax snapshot module.  All requests name the same storage group.    *)
(* The array keeps, per snapshot name, the list of its generations,        *)
(* generation 0 first; a generation is the set of target storage groups    *)
(* it is linked to.                                                        *)
(***************************************************************************)
SnapshotNames == {"snap1", "snap2"}

TargetSGs == {"tsg1"}

NoGeneration == -1

SnapshotExists(arr, snapshot_name, generation) ==
    generation >= 0 /\ generation < Len(arr[snapshot_name])

\* get_snapshot ends the invocation with fail_json when the SDK raises;
\* without a generation it asks for the generation list, which may be empty
get_snapshot_fails(arr, snapshot_name, generation, fault) ==
    \/ fault = "lookup"
    \/ generation /= NoGeneration
         /\ ~SnapshotExists(arr, snapshot_name, generation)

replication_create_storagegroup_snap(c, fault, snap_name, ttl, ttl_unit) ==
    Mutate(c, fault,
           Call("create_storagegroup_snap", "create", snap_name, {},
                [ttl |-> ttl, hours |-> ttl_unit], NoneV, FALSE),
           TRUE,
           [c.arr EXCEPT ![snap_name] = <<{}>> \o @])

replication_delete_storagegroup_snapshot(c, fault, snap_name, generation) ==
    Mutate(c, fault,
           Call("delete_storagegroup_snapshot", "delete", snap_name, {},
                [generation |-> generation], NoneV, FALSE),
           SnapshotExists(c.arr, snap_name, generation),
           [c.arr EXCEPT ![snap_name] =
               SubSeq(@, 1, generation) \o SubSeq(@, generation + 2, Len(@))])

replication_rename_storagegroup_snap(c, fault, snap_name, generation, new_name) ==
    Mutate(c, fault,
           Call("modify_storagegroup_snap", "rename", snap_name, {},
                [generation |-> generation], new_name, FALSE),
           SnapshotExists(c.arr, snap_name, generation)
               /\ c.arr[new_name] = <<>>,
           [c.arr EXCEPT ![snap_name] = <<>>, ![new_name] = c.arr[snap_name]])

replication_link_storagegroup_snap(c, fault, snap_name, target_sg, link, generation) ==
    Mutate(c, fault,
           Call("modify_storagegroup_snap", IF link THEN "link" ELSE "unlink",
                snap_name, {target_sg}, [generation |-> generation], NoneV,
                FALSE),
           /\ SnapshotExists(c.arr, snap_name, generation)
           /\ IF link THEN target_sg \notin c.arr[snap_name][generation + 1]
              ELSE target_sg \in c.arr[snap_name][generation + 1],
           [c.arr EXCEPT ![snap_name][generation + 1] =
               IF link THEN @ \cup {target_sg} ELSE @ \ {target_sg}])

\* a create step that leaves a snapshot name that is in use alone
create_sg_snapshot_if_absent(c, p, fault) ==
    IF c.arr[p.snapshot_name] /= <<>>
    THEN Step(c, "create_sg_snapshot", "False")
    ELSE LET done == replication_create_storagegroup_snap(
                         c, fault, p.snapshot_name, p.ttl, FALSE)
         IN  IF Running(done)
             THEN [Step(done, "create_sg_snapshot", "True")
                      EXCEPT !.changed = TRUE]
             ELSE Step(done, "create_sg_snapshot", "fail")

\* ttl_unit 'days' is passed as False, anything else as True; the string
\* 'None' for ttl is passed as None
create_sg_snapshot(c, p, fault) ==
    LET ttl_unit == IF p.ttl_unit = "days" THEN FALSE ELSE TRUE
        ttl == IF p.ttl = "'None'" THEN NoneV ELSE p.ttl
        done == replication_create_storagegroup_snap(
                    c, fault, p.snapshot_name, ttl, ttl_unit)
    IN  IF Running(done)
        THEN [Step(done, "create_sg_snapshot", "True") EXCEPT !.changed = TRUE]
        ELSE Step(done, "create_sg_snapshot", "fail")

\* faults of a snapshot invocation: "nodetails" is a lookup of a missing
\* generation that returns nothing instead of raising
SnapshotFaults == Faults \cup {"nodetails"}

\* an exception of the lookup gives False; otherwise True is returned
\* whether or not the delete call was made
delete_sg_snapshot(c, p, fault) ==
    IF \/ fault = "lookup"
       \/ /\ ~SnapshotExists(c.arr, p.snapshot_name, p.generation)
          /\ fault /= "nodetails"
    THEN Step(c, "delete_sg_snapshot", "False")
    ELSE IF ~SnapshotExists(c.arr, p.snapshot_name, p.generation)
    THEN [Step(c, "delete_sg_snapshot", "True") EXCEPT !.changed = TRUE]
    ELSE LET done == replication_delete_storagegroup_snapshot(
                         c, fault, p.snapshot_name, p.generation)
         IN  IF Running(done)
             THEN [Step(done, "delete_sg_snapshot", "True")
                      EXCEPT !.changed = TRUE]
             ELSE Step(done, "delete_sg_snapshot", "fail")

rename_sg_snapshot(c, p, fault) ==
    IF get_snapshot_fails(c.arr, p.snapshot_name, p.generation, fault)
    THEN Step(fail_json(c), "rename_sg_snapshot", "fail")
    ELSE IF p.snapshot_name = p.new_snapshot_name
    THEN Step(c, "rename_sg_snapshot", "False")
    ELSE LET done == replication_rename_storagegroup_snap(
                         c, fault, p.snapshot_name, p.generation,
                         p.new_snapshot_name)
         IN  IF Running(done)
             THEN [Step(done, "rename_sg_snapshot", "True")
                      EXCEPT !.changed = TRUE]
             ELSE Step(done, "rename_sg_snapshot", "fail")

change_snapshot_link_status(c, p, fault) ==
    IF p.generation = NoGeneration
    THEN Step(fail_json(c), "change_snapshot_link_status", "fail")
    ELSE IF get_snapshot_fails(c.arr, p.snapshot_name, p.generation, fault)
    THEN Step(fail_json(c), "change_snapshot_link_status", "fail")
    ELSE LET linkedStorageGroup == c.arr[p.snapshot_name][p.generation + 1]
             isLinked == linkedStorageGroup /= {}
         IN  IF \/ isLinked /\ p.link_status = "linked"
                     /\ p.target_sg_name \in linkedStorageGroup
                \/ ~isLinked /\ p.link_status = "unlinked"
             THEN Step(c, "change_snapshot_link_status", "False")
             ELSE LET done == replication_link_storagegroup_snap(
                                  c, fault, p.snapshot_name, p.target_sg_name,
                                  p.link_status = "linked", p.generation)
                  IN  IF Running(done)
                      THEN [Step(done, "change_snapshot_link_status", "True")
                               EXCEPT !.changed = TRUE]
                      ELSE Step(done, "change_snapshot_link_status", "fail")

snapshot_perform_module_operation(arr, p, fault) ==
    LET c1 == Then(Context(arr), LAMBDA c :
                IF p.state = "present" /\ p.ttl /= NoneV
                   /\ ~(p.new_snapshot_name /= NoneV \/ p.link_status /= NoneV)
                THEN create_sg_snapshot(c, p, fault)
                ELSE IF p.state = "absent" /\ p.generation /= NoGeneration
                THEN delete_sg_snapshot(c, p, fault)
                ELSE c)
        c2 == Then(c1, LAMBDA c :
                IF p.state = "present" /\ p.snapshot_name /= NoneV
                   /\ p.link_status /= NoneV /\ p.target_sg_name /= NoneV
                THEN change_snapshot_link_status(c, p, fault) ELSE c)
        c3 == Then(c2, LAMBDA c :
                IF p.state = "present" /\ p.snapshot_name /= NoneV
                   /\ p.new_snapshot_name /= NoneV /\ p.generation = 0
                THEN rename_sg_snapshot(c, p, fault) ELSE c)
        c4 == Then(c3, LAMBDA c :
                IF p.state = "present" /\ p.ttl = NoneV
                   /\ p.link_status = NoneV /\ p.new_snapshot_name = NoneV
                   /\ get_snapshot_fails(c.arr, p.snapshot_name, p.generation,
                                         fault)
                THEN Step(fail_json(c), "get_snapshot", "fail") ELSE c)
    IN  Then(c4, LAMBDA c : exit_json(c, c.changed))

MaxGenerations == 2

SnapshotParams ==
    [snapshot_name : {"snap1"},
     ttl : {NoneV, "2", "'None'"},
     ttl_unit : {"days"},
     generation : {NoGeneration} \cup (0..(MaxGenerations - 1)),
     new_snapshot_name : {NoneV} \cup SnapshotNames,
     target_sg_name : {NoneV, "tsg1"},
     link_status : {NoneV, "linked", "unlinked"},
     state : {"present", "absent"}]

ArraySnapshots ==
    UNION {[1..n -> SUBSET TargetSGs] : n \in 0..MaxGenerations}

InitSnapshots ==
    {snaps \in [SnapshotNames -> ArraySnapshots] :
        snaps["snap2"] \in {<<>>, <<{}>>}}

NoSnapshots == [n \in SnapshotNames |-> <<>>]

(***************************************************************************)
(* Unity consistency group module.  Requests name the group by cg_name.    *)
(* Volumes are named by id, and the first one by name as well.             *)
(***************************************************************************)
NumVols == 3

VolIds == 1..NumVols

\* the volumes that exist on the array; the last id names no volume
ArrayVols == 1..(NumVols - 1)

NoVolId == 0

\* unity_conn.get_lun(name=...): the id behind a volume name
LunIdByName == [n \in {"vol1"} |-> 1]

VolRefs ==
    [vol_id : VolIds, vol_name : {NoneV}] \cup
    [vol_id : {NoVolId}, vol_name : DOMAIN LunIdByName]

CGNames == {"cg1", "cg2"}

\* relocation_policy as the array reports it: 'TieringPolicyEnum.<NAME>'
RelocationPolicy(name) == <<"TieringPolicyEnum", name>>

NoPolicy == <<>>

NoCG ==
    [existed |-> FALSE, description |-> NoneV, luns |-> {},
     relocation_policy |-> NoPolicy]

\* get_details: only UnityResourceNotFoundError gives None, every other
\* exception ends the invocation
get_details_fails(fault) == fault = "lookup"

get_details(arr, cg_name) == arr[cg_name]

\* the consistency groups a volume is a member of (UnityLun.cg)
LunCG(arr, lun_id) == {n \in CGNames : arr[n].existed /\ lun_id \in arr[n].luns}

LunId(vol) ==
    IF vol.vol_name /= NoneV THEN LunIdByName[vol.vol_name] ELSE vol.vol_id

\* get_volume_details ends the invocation when the volume does not exist
\* or is a member of another consistency group than the requested one
get_volume_details_fails(arr, p, vol) ==
    \/ LunId(vol) \notin ArrayVols
    \/ /\ LunCG(arr, LunId(vol)) /= {}
       /\ \/ ~get_details(arr, p.cg_name).existed
          \/ LunCG(arr, LunId(vol)) /= {p.cg_name}

validate_volumes_fails(arr, p) ==
    \E vol \in p.volumes : get_volume_details_fails(arr, p, vol)

\* AnsibleModule(required_together=[['volumes', 'vol_state']])
required_together(p) == (p.volumes /= {}) = (p.vol_state /= NoneV)

is_cg_modified_fails(cg_details, p) ==
    p.tiering_policy /= NoneV /\ cg_details.luns = {} /\ p.volumes = {}

is_cg_modified(cg_details, p) ==
    \/ cg_details.description /= NoneV /\ p.description /= NoneV
         /\ cg_details.description /= p.description
    \/ cg_details.description = NoneV /\ p.description /= NoneV
    \/ /\ cg_details.relocation_policy /= NoPolicy
       /\ p.tiering_policy /= NoneV
       /\ cg_details.relocation_policy[2] /= p.tiering_policy

UnityConsistencyGroup_create(c, fault, cg_name, description) ==
    Mutate(c, fault,
           Call("UnityConsistencyGroup.create", "create", cg_name, {},
                [description |-> description], NoneV, FALSE),
           ~c.arr[cg_name].existed,
           [c.arr EXCEPT ![cg_name] =
               [NoCG EXCEPT !.existed = TRUE,
                            !.description =
                                IF description = NoneV THEN "" ELSE description]])

cg_obj_modify_lun_add(c, fault, cg_name, vol_add_list, policy_enum) ==
    Mutate(c, fault,
           Call("cg_obj.modify", "add", cg_name, vol_add_list,
                [tiering_policy |-> policy_enum], NoneV, FALSE),
           /\ c.arr[cg_name].existed
           /\ \A v \in vol_add_list : v \in ArrayVols /\ LunCG(c.arr, v) = {},
           [c.arr EXCEPT ![cg_name].luns = @ \cup vol_add_list,
                         ![cg_name].relocation_policy =
                             IF policy_enum = NoneV THEN @
                             ELSE RelocationPolicy(policy_enum)])

cg_obj_modify_lun_remove(c, fault, cg_name, vol_remove_list) ==
    Mutate(c, fault,
           Call("cg_obj.modify", "remove", cg_name, vol_remove_list,
                EmptyDict, NoneV, FALSE),
           c.arr[cg_name].existed /\ vol_remove_list \subseteq c.arr[cg_name].luns,
           [c.arr EXCEPT ![cg_name].luns = @ \ vol_remove_list])

cg_obj_modify_name(c, fault, cg_name, new_cg_name) ==
    Mutate(c, fault,
           Call("cg_obj.modify", "rename", cg_name, {}, EmptyDict,
                new_cg_name, FALSE),
           c.arr[cg_name].existed /\ ~c.arr[new_cg_name].existed,
           [c.arr EXCEPT ![cg_name] = NoCG, ![new_cg_name] = c.arr[cg_name]])

\* the array cannot give a tiering policy to a group without volumes
cg_obj_modify_attrs(c, fault, cg_name, description, policy_enum) ==
    Mutate(c, fault,
           Call("cg_obj.modify", "modify", cg_name, {},
                [description |-> description, tiering_policy |-> policy_enum],
                NoneV, FALSE),
           /\ c.arr[cg_name].existed
           /\ (policy_enum = NoneV \/ c.arr[cg_name].luns /= {}),
           [c.arr EXCEPT ![cg_name].description =
                             IF description = NoneV THEN @ ELSE description,
                         ![cg_name].relocation_policy =
                             IF policy_enum = NoneV THEN @
                             ELSE RelocationPolicy(policy_enum)])

cg_obj_delete(c, fault, cg_name) ==
    Mutate(c, fault,
           Call("cg_obj.delete", "delete", cg_name, {}, EmptyDict, NoneV,
                FALSE),
           c.arr[cg_name].existed /\ c.arr[cg_name].luns = {},
           [c.arr EXCEPT ![cg_name] = NoCG])

Returned(done, name) ==
    IF Running(done)
    THEN [Step(done, name, "True") EXCEPT !.changed = TRUE]
    ELSE Step(done, name, "fail")

create_cg(c, p, fault) ==
    Returned(UnityConsistencyGroup_create(c, fault, p.cg_name, p.description),
             "create_cg")

\* ids_to_add: the requested volumes, by name and by id, that are not in
\* the group yet
cg_ids_to_add(existing_vol_ids, volumes) ==
    {LunId(vol) : vol \in volumes} \ existing_vol_ids

\* ids_to_remove: the requested volumes that are in the group
cg_ids_to_remove(existing_vol_ids, volumes) ==
    {LunId(vol) : vol \in volumes} \cap existing_vol_ids

add_volumes_to_cg(c, p, fault) ==
    LET existing_vol_ids == c.arr[p.cg_name].luns
        ids_to_add == cg_ids_to_add(existing_vol_ids, p.volumes)
    IN  IF \E vol \in p.volumes : get_volume_details_fails(c.arr, p, vol)
        THEN Step(fail_json(c), "add_volumes_to_cg", "fail")
        ELSE IF Cardinality(ids_to_add) = 0
        THEN Step(c, "add_volumes_to_cg", "False")
        ELSE Returned(cg_obj_modify_lun_add(c, fault, p.cg_name, ids_to_add,
                                            p.tiering_policy),
                      "add_volumes_to_cg")

\* only volumes given by name are looked up again here
remove_volumes_from_cg(c, p, fault) ==
    LET existing_vol_ids == c.arr[p.cg_name].luns
        ids_to_remove == cg_ids_to_remove(existing_vol_ids, p.volumes)
    IN  IF \E vol \in p.volumes :
               vol.vol_name /= NoneV /\ get_volume_details_fails(c.arr, p, vol)
        THEN Step(fail_json(c), "remove_volumes_from_cg", "fail")
        ELSE IF Cardinality(ids_to_remove) = 0
        THEN Step(c, "remove_volumes_from_cg", "False")
        ELSE Returned(cg_obj_modify_lun_remove(c, fault, p.cg_name,
                                               ids_to_remove),
                      "remove_volumes_from_cg")

rename_cg(c, p, fault) ==
    Returned(cg_obj_modify_name(c, fault, p.cg_name, p.new_cg_name),
             "rename_cg")

modify_cg(c, p, cg_name, fault) ==
    Returned(cg_obj_modify_attrs(c, fault, cg_name, p.description,
                                 p.tiering_policy),
             "modify_cg")

delete_cg(c, p, fault) ==
    Returned(cg_obj_delete(c, fault, p.cg_name), "delete_cg")

\* a delete branch without its precondition
cg_delete_never_refused(cg_details) == FALSE

\* the precondition of the delete branch: a group with volumes is refused
cg_delete_refused(cg_details) == cg_details.luns /= {}

\* perform_module_operation from the statement after get_details on:
\* cg_details is what the lookup returned, arr the array the calls reach
consistencygroup_reconcile(arr, cg_details, p, fault) ==
    LET found == cg_details.existed
        modified == found /\ is_cg_modified(cg_details, p)
        c0 == Then(Context(arr), LAMBDA c :
                IF \/ ~required_together(p)
                   \/ get_details_fails(fault)
                   \/ p.volumes /= {} /\ validate_volumes_fails(arr, p)
                   \/ found /\ is_cg_modified_fails(cg_details, p)
                   \/ p.vol_state /= NoneV /\ p.volumes = {}
                THEN fail_json(c) ELSE c)
        c1 == Then(c0, LAMBDA c :
                IF p.state = "present" /\ ~found
                THEN IF \/ p.volumes = {} /\ p.tiering_policy /= NoneV
                        \/ p.cg_name = NoneV
                        \/ p.new_cg_name /= NoneV
                     THEN fail_json(c)
                     ELSE create_cg(c, p, fault)
                ELSE IF p.state = "absent" /\ found
                THEN IF cg_delete_refused(cg_details)
                     THEN Step(fail_json(c), "delete_cg", "refused")
                     ELSE delete_cg(c, p, fault)
                ELSE c)
        \* after create_cg, cg_details is the created object
        have(c) == found \/ (p.state = "present" /\ Running(c))
        c2 == Then(c1, LAMBDA c :
                IF p.state = "present" /\ have(c) /\ p.volumes /= {}
                   /\ p.vol_state = "present-in-group"
                THEN add_volumes_to_cg(c, p, fault)
                ELSE IF p.state = "present" /\ have(c)
                        /\ p.volumes /= {} /\ p.vol_state = "absent-in-group"
                THEN remove_volumes_from_cg(c, p, fault)
                ELSE c)
        renaming == p.state = "present" /\ p.new_cg_name /= NoneV
                    /\ p.cg_name /= p.new_cg_name
        c3 == Then(c2, LAMBDA c :
                IF p.state = "present" /\ p.new_cg_name = ""
                THEN fail_json(c)
                ELSE IF renaming
                THEN rename_cg(c, p, fault) ELSE c)
        cg_name == IF renaming THEN p.new_cg_name ELSE p.cg_name
        c4 == Then(c3, LAMBDA c :
                IF p.state = "present" /\ have(c) /\ modified
                THEN modify_cg(c, p, cg_name, fault) ELSE c)
    IN  Then(c4, LAMBDA c :
            [exit_json(c, c.changed) EXCEPT
                !.details = get_details(c.arr, cg_name)])

consistencygroup_perform_module_operation(arr, p, fault) ==
    consistencygroup_reconcile(arr, get_details(arr, p.cg_name), p, fault)

\* the volumes parameter: volumes given by id, or one volume given by name
VolumeLists ==
    {vols \in SUBSET VolRefs :
        \A vol \in vols : vol.vol_name /= NoneV => vols = {vol}}

CGParams ==
    [cg_name : {"cg1"},
     volumes : VolumeLists,
     vol_state : {NoneV, "present-in-group", "absent-in-group"},
     new_cg_name : {NoneV} \cup CGNames,
     description : {NoneV, "d1"},
     tiering_policy : {NoneV, "AUTOTIER"},
     state : {"present", "absent"}]

ArrayCGs ==
    {NoCG} \cup
    [existed : {TRUE}, description : {"", "d1"}, luns : SUBSET ArrayVols,
     relocation_policy : {NoPolicy, RelocationPolicy("AUTOTIER"),
                          RelocationPolicy("LOWEST")}]

\* a volume is a member of at most one group, and only a group with
\* volumes has a relocation policy
InitCGs ==
    {cs \in [CGNames -> ArrayCGs] :
        /\ cs["cg1"].luns \cap cs["cg2"].luns = {}
        /\ cs["cg2"].description \in {NoneV, ""}
        /\ cs["cg2"].relocation_policy = NoPolicy
        /\ cs["cg2"].existed => cs["cg2"].luns = {NumVols - 1}
        /\ cs["cg1"].luns = {} => cs["cg1"].relocation_policy = NoPolicy}

NoCGs == [n \in CGNames |-> NoCG]

(***************************************************************************)
(* Unity volume module.  Requests name the volume by vol_name and the host *)
(* by host_name; compression, sp, tiering_policy, io_limit_policy,         *)
(* snap_schedule and hlu are left out of every request.  Sizes in bytes    *)
(* are counted in units of 2^20 bytes.                                     *)
(***************************************************************************)
MaxSize == 2

NoSize == -1

GB == 1024

TB == 1024 * 1024

\* utils.get_size_bytes(size, cap_unit)
get_size_bytes(size, cap_unit) ==
    IF cap_unit = "TB" THEN size * TB ELSE size * GB

\* utils.get_size_in_gb(size, cap_unit)
get_size_in_gb(size, cap_unit) ==
    IF cap_unit = "TB" THEN size * 1024 ELSE size

VolumeNames == {"vol1", "vol2"}

UnityHosts == {"host1"}

NoVolume ==
    [existed |-> FALSE, description |-> NoneV, size_total |-> 0,
     is_thin_enabled |-> TRUE, host_access |-> {}]

\* faults of a volume invocation: "noresp" is an attach or detach that
\* succeeds and returns nothing
VolumeFaults == Faults \cup {"noresp"}

\* get_volume: only UnityResourceNotFoundError gives None
get_volume_fails(fault) == fault = "lookup"

get_volume(arr, vol_name) == arr[vol_name]

NoUpdate == [name |-> NoneV, description |-> NoneV, size |-> NoSize]

\* the keys of to_update, one operator per key
update_name(obj_vol_name, p) ==
    IF p.new_vol_name /= NoneV /\ obj_vol_name /= p.new_vol_name
    THEN p.new_vol_name ELSE NoneV

update_description(obj_vol, p) ==
    IF p.description \notin {NoneV, ""} /\ obj_vol.description /= p.description
    THEN p.description ELSE NoneV

\* a comparison that takes the current size for a larger one
update_size_not_smaller(obj_vol, p, cap_unit) ==
    IF p.size \notin {NoSize, 0} /\ cap_unit /= NoneV
          /\ get_size_bytes(p.size, cap_unit) >= obj_vol.size_total
    THEN get_size_bytes(p.size, cap_unit) ELSE NoSize

update_size(obj_vol, p, cap_unit) ==
    IF p.size \notin {NoSize, 0} /\ cap_unit /= NoneV
          /\ get_size_bytes(p.size, cap_unit) > obj_vol.size_total
    THEN get_size_bytes(p.size, cap_unit) ELSE NoSize

\* a comparison that lets a smaller size through
volume_modify_required_allows_shrink(obj_vol, p, cap_unit) ==
    p.is_thin /= obj_vol.is_thin_enabled

volume_modify_required_fails(obj_vol, p, cap_unit) ==
    \/ p.size \notin {NoSize, 0} /\ cap_unit /= NoneV
         /\ get_size_bytes(p.size, cap_unit) < obj_vol.size_total
    \/ p.is_thin /= obj_vol.is_thin_enabled

\* to_update; a key that is not in the dict is None here, which is how
\* modify_volume completes the dict before the call
volume_modify_required(obj_vol_name, obj_vol, p, cap_unit) ==
    [name |-> update_name(obj_vol_name, p),
     description |-> update_description(obj_vol, p),
     size |-> update_size(obj_vol, p, cap_unit)]

host_access_modify_required(obj_vol, p) ==
    \/ p.mapping_state = "mapped" /\ p.host_name \notin obj_vol.host_access
    \/ p.mapping_state = "unmapped" /\ p.host_name \in obj_vol.host_access

obj_pool_create_lun(c, fault, lun_name, size_gb, host_access, description) ==
    Mutate(c, fault,
           Call("create_lun", "create", lun_name, host_access,
                [size_gb |-> size_gb, description |-> description], NoneV,
                FALSE),
           ~c.arr[lun_name].existed,
           [c.arr EXCEPT ![lun_name] =
               [existed |-> TRUE,
                description |-> IF description = NoneV THEN "" ELSE description,
                size_total |-> size_gb * GB,
                is_thin_enabled |-> TRUE,
                host_access |-> host_access]])

obj_vol_modify(c, fault, vol_name, to_modify_dict) ==
    Mutate(c, fault,
           Call("obj_vol.modify", "modify", vol_name, {}, to_modify_dict,
                to_modify_dict.name, FALSE),
           /\ c.arr[vol_name].existed
           /\ (to_modify_dict.name /= NoneV
                 => ~c.arr[to_modify_dict.name].existed),
           LET updated ==
                   [c.arr[vol_name] EXCEPT
                       !.description = IF to_modify_dict.description = NoneV
                                       THEN @ ELSE to_modify_dict.description,
                       !.size_total = IF to_modify_dict.size = NoSize
                                      THEN @ ELSE to_modify_dict.size]
           IN  IF to_modify_dict.name = NoneV
               THEN [c.arr EXCEPT ![vol_name] = updated]
               ELSE [c.arr EXCEPT ![vol_name] = NoVolume,
                                  ![to_modify_dict.name] = updated])

obj_vol_attach_to(c, fault, vol_name, host) ==
    Mutate(c, fault,
           Call("obj_vol.attach_to", "map", vol_name, {host}, EmptyDict,
                NoneV, FALSE),
           c.arr[vol_name].existed,
           [c.arr EXCEPT ![vol_name].host_access = @ \cup {host}])

obj_vol_detach_from(c, fault, vol_name, host) ==
    Mutate(c, fault,
           Call("obj_vol.detach_from", "unmap", vol_name, {host}, EmptyDict,
                NoneV, FALSE),
           c.arr[vol_name].existed,
           [c.arr EXCEPT ![vol_name].host_access = @ \ {host}])

obj_vol_delete(c, fault, vol_name) ==
    Mutate(c, fault,
           Call("obj_vol.delete", "delete", vol_name, {}, EmptyDict, NoneV,
                FALSE),
           c.arr[vol_name].existed,
           [c.arr EXCEPT ![vol_name] = NoVolume])

\* the host_access list of the create branch: the host of the request,
\* whatever the mapping_state
create_host_access(p) == IF p.host_name /= NoneV THEN {p.host_name} ELSE {}

create_volume(c, p, cap_unit, fault) ==
    Returned(obj_pool_create_lun(c, fault, p.vol_name,
                                 get_size_in_gb(p.size, cap_unit),
                                 create_host_access(p), p.description),
             "create_volume")

modify_volume(c, vol_name, to_modify_dict, fault) ==
    Returned(obj_vol_modify(c, fault, vol_name, to_modify_dict),
             "modify_volume")

\* changed = True if resp else False
attach_to(c, vol_name, p, fault) ==
    LET done == obj_vol_attach_to(c, fault, vol_name, p.host_name)
    IN  IF Running(done)
        THEN [Step(done, "attach_to", "resp") EXCEPT
                 !.changed = (fault /= "noresp")]
        ELSE Step(done, "attach_to", "fail")

detach_from(c, vol_name, p, fault) ==
    LET done == obj_vol_detach_from(c, fault, vol_name, p.host_name)
    IN  IF Running(done)
        THEN [Step(done, "detach_from", "resp") EXCEPT
                 !.changed = (fault /= "noresp")]
        ELSE Step(done, "detach_from", "fail")

delete_volume(c, vol_name, fault) ==
    Returned(obj_vol_delete(c, fault, vol_name), "delete_volume")

\* get_volume_display_attributes
volume_details(arr, vol_name) ==
    [existed |-> arr[vol_name].existed, name |-> vol_name,
     size_total |-> arr[vol_name].size_total,
     description |-> arr[vol_name].description,
     host_access |-> arr[vol_name].host_access]

volume_perform_module_operation(arr, p, fault) ==
    LET cap_unit == IF p.size \notin {NoSize, 0} /\ p.cap_unit = NoneV
                    THEN "GB" ELSE p.cap_unit
        obj_vol == get_volume(arr, p.vol_name)
        found == obj_vol.existed
        to_modify_dict ==
            IF found
            THEN volume_modify_required(p.vol_name, obj_vol, p, cap_unit)
            ELSE NoUpdate
        to_modify_host ==
            /\ found
            /\ IF obj_vol.host_access /= {}
               THEN host_access_modify_required(obj_vol, p)
               ELSE p.host_name /= NoneV
        c0 == Then(Context(arr), LAMBDA c :
                IF \/ p.size = 0
                   \/ cap_unit /= NoneV /\ p.size \in {NoSize, 0}
                   \/ p.mapping_state /= NoneV /\ p.host_name = NoneV
                   \/ get_volume_fails(fault)
                   \/ p.host_name /= NoneV /\ p.mapping_state = NoneV
                   \/ p.host_name /= NoneV /\ p.host_name \notin UnityHosts
                   \/ found /\ volume_modify_required_fails(obj_vol, p, cap_unit)
                THEN fail_json(c) ELSE c)
        c1 == Then(c0, LAMBDA c :
                IF p.state = "present" /\ ~found
                THEN IF \/ p.vol_name = NoneV
                        \/ p.new_vol_name /= NoneV
                        \/ p.pool_name = NoneV
                        \/ p.size \in {NoSize, 0}
                     THEN fail_json(c)
                     ELSE create_volume(c, p, cap_unit, fault)
                ELSE c)
        \* after create_volume, obj_vol is the created volume
        have(c) == found \/ (p.state = "present" /\ Running(c))
        c2 == Then(c1, LAMBDA c :
                IF p.state = "present" /\ have(c)
                   /\ to_modify_dict /= NoUpdate
                THEN modify_volume(c, p.vol_name, to_modify_dict, fault) ELSE c)
        \* obj_vol keeps its id through a rename
        vol_name(c) == IF c.calls /= <<>> /\ to_modify_dict.name /= NoneV
                       THEN to_modify_dict.name ELSE p.vol_name
        c3 == Then(c2, LAMBDA c :
                IF p.state = "present" /\ have(c)
                   /\ p.mapping_state = "mapped" /\ to_modify_host
                THEN attach_to(c, vol_name(c), p, fault) ELSE c)
        c4 == Then(c3, LAMBDA c :
                IF p.state = "present" /\ have(c)
                   /\ p.mapping_state = "unmapped" /\ to_modify_host
                THEN detach_from(c, vol_name(c), p, fault) ELSE c)
        c5 == Then(c4, LAMBDA c :
                IF p.state = "absent" /\ have(c)
                THEN delete_volume(c, vol_name(c), fault) ELSE c)
    IN  Then(c5, LAMBDA c :
            [exit_json(c, c.changed) EXCEPT
                !.details = IF p.state = "present" /\ have(c)
                            THEN volume_details(c.arr, vol_name(c))
                            ELSE NoDetails])

VolumeParams ==
    [vol_name : {"vol1"},
     pool_name : {NoneV, "pool1"},
     size : {NoSize} \cup (0..MaxSize),
     cap_unit : {NoneV, "GB", "TB"},
     description : {NoneV, "", "d1"},
     is_thin : {TRUE},
     host_name : {NoneV} \cup UnityHosts,
     mapping_state : {NoneV, "mapped", "unmapped"},
     new_vol_name : {NoneV} \cup VolumeNames,
     state : {"present", "absent"}]

ArrayVolumes ==
    {NoVolume} \cup
    [existed : {TRUE}, description : {"", "d1"},
     size_total : {n * GB : n \in 1..MaxSize},
     is_thin_enabled : {TRUE}, host_access : SUBSET UnityHosts]

InitVolumes ==
    {vs \in [VolumeNames -> ArrayVolumes] : vs["vol2"] = NoVolume}

NoVolumes == [n \in VolumeNames |-> NoVolume]

(***************************************************************************)
(* Observation of an invocation: what main() was given, what the array     *)
(* was before, and what the invocation did and returned.                   *)
(***************************************************************************)
NoFirst ==
    [status |-> "none", fault |-> "none", changed |-> FALSE, calls |-> <<>>,
     pre |-> <<>>]

Observation(p, fault, pre, c, rerun, first) ==
    [req |-> p, fault |-> fault, pre |-> pre, status |-> c.status,
     changed |-> c.changed, calls |-> c.calls, steps |-> c.steps,
     details |-> c.details, rerun |-> rerun, first |-> first]

NoRun == [rerun |-> FALSE, status |-> "none"]

Modules == {"hostgroup", "maskingview", "snapshot", "consistencygroup", "volume"}

Init ==
    /\ module \in Modules
    /\ hostgroups \in (IF module = "hostgroup" THEN InitHostGroups
                       ELSE {NoHostGroups})
    /\ maskingviews \in (IF module = "maskingview" THEN InitMaskingViews
                         ELSE {NoMaskingViews})
    /\ snapshots \in (IF module = "snapshot" THEN InitSnapshots
                      ELSE {NoSnapshots})
    /\ cgs \in (IF module = "consistencygroup" THEN InitCGs ELSE {NoCGs})
    /\ luns \in (IF module = "volume" THEN InitVolumes ELSE {NoVolumes})
    /\ pc = "idle"
    /\ last = NoRun

First(p, fault, pre, c) == Observation(p, fault, pre, c, FALSE, NoFirst)

Second(pre, c) ==
    Observation(last.req, "none", pre, c, TRUE,
                [status |-> last.status, fault |-> last.fault,
                 changed |-> last.changed, calls |-> last.calls,
                 pre |-> last.pre])

\* main() of dellemc_powermax_hostgroup: one invocation with some params
HostGroupRun ==
    /\ module = "hostgroup"
    /\ pc = "idle"
    /\ \E p \in HostGroupParams, fault \in Faults :
         LET c == hostgroup_perform_module_operation(hostgroups, p, fault)
         IN  /\ hostgroups' = c.arr
             /\ last' = First(p, fault, hostgroups, c)
    /\ pc' = "ran"
    /\ UNCHANGED <<module, maskingviews, snapshots, cgs, luns>>

\* the same task run again after it completed, nothing else touching the
\* array in between
HostGroupRerun ==
    /\ module = "hostgroup"
    /\ pc = "ran"
    /\ ~last.rerun
    /\ last.status = "ok"
    /\ LET c == hostgroup_perform_module_operation(hostgroups, last.req, "none")
       IN  /\ hostgroups' = c.arr
           /\ last' = Second(hostgroups, c)
    /\ UNCHANGED <<module, pc, maskingviews, snapshots, cgs, luns>>

\* main() of dellemc_powermax_maskingview
MaskingViewRun ==
    /\ module = "maskingview"
    /\ pc = "idle"
    /\ \E p \in MaskingViewParams, fault \in Faults :
         LET c == maskingview_perform_module_operation(maskingviews, p, fault)
         IN  /\ maskingviews' = c.arr
             /\ last' = First(p, fault, maskingviews, c)
    /\ pc' = "ran"
    /\ UNCHANGED <<module, hostgroups, snapshots, cgs, luns>>

MaskingViewRerun ==
    /\ module = "maskingview"
    /\ pc = "ran"
    /\ ~last.rerun
    /\ last.status = "ok"
    /\ LET c == maskingview_perform_module_operation(maskingviews, last.req,
                                                     "none")
       IN  /\ maskingviews' = c.arr
           /\ last' = Second(maskingviews, c)
    /\ UNCHANGED <<module, pc, hostgroups, snapshots, cgs, luns>>

\* main() of dellemc_powermax_snapshot
SnapshotRun ==
    /\ module = "snapshot"
    /\ pc = "idle"
    /\ \E p \in SnapshotParams, fault \in SnapshotFaults :
         LET c == snapshot_perform_module_operation(snapshots, p, fault)
         IN  \* an empty lookup result is one of delete_sg_snapshot
             /\ fault = "nodetails" => p.state = "absent"
             /\ snapshots' = c.arr
             /\ last' = First(p, fault, snapshots, c)
    /\ pc' = "ran"
    /\ UNCHANGED <<module, hostgroups, maskingviews, cgs, luns>>

SnapshotRerun ==
    /\ module = "snapshot"
    /\ pc = "ran"
    /\ ~last.rerun
    /\ last.status = "ok"
    /\ LET c == snapshot_perform_module_operation(snapshots, last.req, "none")
       IN  /\ snapshots' = c.arr
           /\ last' = Second(snapshots, c)
    /\ UNCHANGED <<module, pc, hostgroups, maskingviews, cgs, luns>>

\* main() of dellemc_unity_consistencygroup
CGRun ==
    /\ module = "consistencygroup"
    /\ pc = "idle"
    /\ \E p \in CGParams, fault \in Faults :
         LET c == consistencygroup_perform_module_operation(cgs, p, fault)
         IN  /\ cgs' = c.arr
             /\ last' = First(p, fault, cgs, c)
    /\ pc' = "ran"
    /\ UNCHANGED <<module, hostgroups, maskingviews, snapshots, luns>>

CGRerun ==
    /\ module = "consistencygroup"
    /\ pc = "ran"
    /\ ~last.rerun
    /\ last.status = "ok"
    /\ LET c == consistencygroup_perform_module_operation(cgs, last.req, "none")
       IN  /\ cgs' = c.arr
           /\ last' = Second(cgs, c)
    /\ UNCHANGED <<module, pc, hostgroups, maskingviews, snapshots, luns>>

\* main() of dellemc_unity_volume
VolumeRun ==
    /\ module = "volume"
    /\ pc = "idle"
    /\ \E p \in VolumeParams, fault \in VolumeFaults :
         LET c == volume_perform_module_operation(luns, p, fault)
         IN  \* an empty response is one of attach_to or detach_from
             /\ fault = "noresp" => p.mapping_state /= NoneV
             /\ luns' = c.arr
             /\ last' = First(p, fault, luns, c)
    /\ pc' = "ran"
    /\ UNCHANGED <<module, hostgroups, maskingviews, snapshots, cgs>>

VolumeRerun ==
    /\ module = "volume"
    /\ pc = "ran"
    /\ ~last.rerun
    /\ last.status = "ok"
    /\ LET c == volume_perform_module_operation(luns, last.req, "none")
       IN  /\ luns' = c.arr
           /\ last' = Second(luns, c)
    /\ UNCHANGED <<module, pc, hostgroups, maskingviews, snapshots, cgs>>

Next ==
    \/ HostGroupRun
    \/ HostGroupRerun
    \/ MaskingViewRun
    \/ MaskingViewRerun
    \/ SnapshotRun
    \/ SnapshotRerun
    \/ CGRun
    \/ CGRerun
    \/ VolumeRun
    \/ VolumeRerun

Spec == Init /\ [][Next]_vars

(***************************************************************************)
(* The host flag mappings on their own: a received host_flags dict and a   *)
(* host group as the array reports it, to which the mapping of             *)
(* create_hostgroup and the mapping of modify_host_flags are applied.      *)
(***************************************************************************)
MappedFlagNames == {"openvms", "scsi_3"}

ReceivedHostFlags ==
    UNION {[S -> FlagValues] : S \in SUBSET MappedFlagNames}

FlagHosts ==
    {hg \in [existed : {TRUE}, host : {{}},
             enabled_flags : SUBSET MappedFlagNames,
             disabled_flags : SUBSET MappedFlagNames,
             consistent_lun : {FALSE}, maskingview : {FALSE}] :
        hg.enabled_flags \cap hg.disabled_flags = {}}

InitFlags ==
    /\ module = "host_flags"
    /\ hostgroups \in {[NoHostGroups EXCEPT !["hg1"] = hg] : hg \in FlagHosts}
    /\ maskingviews = NoMaskingViews
    /\ snapshots = NoSnapshots
    /\ cgs = NoCGs
    /\ luns = NoVolumes
    /\ pc = "idle"
    /\ last \in [op : {"none"}, received_host_flags : ReceivedHostFlags,
                 new_host_flags_dict : {EmptyDict}]

\* create_hostgroup: new_host_flags_dict from the received flags
CreateHostFlags ==
    /\ module = "host_flags"
    /\ pc = "idle"
    /\ last' = [last EXCEPT
                   !.op = "create",
                   !.new_host_flags_dict =
                       _create_host_flags_dict(last.received_host_flags)]
    /\ pc' = "ran"
    /\ UNCHANGED <<module, hostgroups, maskingviews, snapshots, cgs, luns>>

\* modify_host_flags: new_flags_dict from the current and the received flags
ModifyHostFlags ==
    /\ module = "host_flags"
    /\ pc = "idle"
    /\ last' = [last EXCEPT
                   !.op = "modify",
                   !.new_host_flags_dict =
                       modify_new_flags_dict(
                           _recreate_host_flag_dict(hostgroups["hg1"]),
                           last.received_host_flags)]
    /\ pc' = "ran"
    /\ UNCHANGED <<module, hostgroups, maskingviews, snapshots, cgs, luns>>

NextFlags ==
    \/ CreateHostFlags
    \/ ModifyHostFlags

SpecFlags == InitFlags /\ [][NextFlags]_vars

(***************************************************************************)
(* Two runs of one module at once.  Nothing in the modules takes a lock:   *)
(* a run is the lookup at the top of perform_module_operation followed by  *)
(* the statements that act on what the lookup returned, and the calls of   *)
(* another run can reach the array between the two.  Both runs are given   *)
(* the same state=present request for an entity the array does not hold;   *)
(* pc maps each run to its position, last to what it has seen and done.    *)
(***************************************************************************)
\* the number of runs at once
NumRuns == 2

InitRace ==
    /\ module \in {"hostgroup_race", "consistencygroup_race"}
    /\ hostgroups = NoHostGroups
    /\ maskingviews = NoMaskingViews
    /\ snapshots = NoSnapshots
    /\ cgs = NoCGs
    /\ luns = NoVolumes
    /\ pc = [r \in 1..NumRuns |-> "start"]
    /\ \E p \in (IF module = "hostgroup_race"
                 THEN {q \in HostGroupParams : q.state = "present"}
                 ELSE {q \in CGParams : q.state = "present"}) :
          last = [r \in 1..NumRuns |->
                     [req |-> p, fault |-> "none", seen |-> [existed |-> FALSE],
                      status |-> "none", changed |-> FALSE, calls |-> <<>>]]

\* get_hostgroup / get_details at the top of perform_module_operation
RaceLookup(r) ==
    /\ pc[r] = "start"
    /\ \E fault \in Faults :
          last' = [last EXCEPT ![r] =
                     [@ EXCEPT
                        !.fault = fault,
                        !.status = "running",
                        !.seen =
                            IF module = "hostgroup_race"
                            THEN get_hostgroup(hostgroups,
                                               last[r].req.hostgroup_name, fault)
                            ELSE get_details(cgs, last[r].req.cg_name)]]
    /\ pc' = [pc EXCEPT ![r] = "looked"]
    /\ UNCHANGED <<module, hostgroups, maskingviews, snapshots, cgs, luns>>

\* the rest of perform_module_operation, on the array as it is by now
RaceReconcile(r) ==
    /\ pc[r] = "looked"
    /\ LET c == IF module = "hostgroup_race"
                THEN hostgroup_reconcile(hostgroups, last[r].seen,
                                         last[r].req, last[r].fault)
                ELSE consistencygroup_reconcile(cgs, last[r].seen,
                                                last[r].req, last[r].fault)
       IN  /\ hostgroups' = IF module = "hostgroup_race" THEN c.arr
                            ELSE hostgroups
           /\ cgs' = IF module = "hostgroup_race" THEN cgs ELSE c.arr
           /\ last' = [last EXCEPT ![r] =
                          [@ EXCEPT !.status = c.status,
                                    !.changed = c.changed,
                                    !.calls = c.calls]]
    /\ pc' = [pc EXCEPT ![r] = "done"]
    /\ UNCHANGED <<module, maskingviews, snapshots, luns>>

SpecRace ==
    InitRace /\ [][\E r \in 1..NumRuns : RaceLookup(r) \/ RaceReconcile(r)]_vars

(***************************************************************************)
(* Properties                                                              *)
(***************************************************************************)
Ran == pc = "ran"

CallsOfKind(kind) == {i \in DOMAIN last.calls : last.calls[i].kind = kind}

SucceededCalls == {i \in DOMAIN last.calls : last.calls[i].ok}

StepResults(name) ==
    {last.steps[i].ret : i \in {j \in DOMAIN last.steps :
                                   last.steps[j].step = name}}

\* C1: after a successful run, the identical request run again issues no
\* mutating call and reports changed=false
C1_Idempotence ==
    (Ran /\ last.rerun /\ last.first.status = "ok" /\ last.first.fault = "none")
        => (last.calls = <<>> /\ last.changed = FALSE)

\* C2: a run that ends in exit_json reports changed=true exactly when one
\* of its mutating calls succeeded
C2_ChangedIffCallSucceeded ==
    (Ran /\ last.status = "ok") => (last.changed <=> SucceededCalls /= {})

\* the request of the create scenario: a pool and a size, no new name and
\* no host mapping
VolumeCreateRequest(p) ==
    /\ p.state = "present"
    /\ p.pool_name /= NoneV
    /\ p.size \notin {NoSize, 0}
    /\ p.new_vol_name = NoneV
    /\ p.host_name = NoneV
    /\ p.mapping_state = NoneV

RequestedBytes(p) == IF p.cap_unit = "TB" THEN p.size * TB ELSE p.size * GB

HostGroupNameAfter ==
    IF \E i \in CallsOfKind("rename") : last.calls[i].ok
    THEN last.req.new_name ELSE last.req.hostgroup_name

\* where the consistency group of the request is after the run
CGNameAfter ==
    IF \E i \in CallsOfKind("rename") : last.calls[i].ok
    THEN last.req.new_cg_name ELSE last.req.cg_name

\* a membership step of the host group module on an existing host group
HostGroupMembership(host_state) ==
    /\ module = "hostgroup" /\ Ran
    /\ last.fault /= "lookup"
    /\ last.req.state = "present"
    /\ last.req.host_state = host_state
    /\ last.req.hosts /= {}
    /\ last.pre[last.req.hostgroup_name].existed

\* a membership request of the consistency group module
CGMembership(vol_state) ==
    /\ module = "consistencygroup" /\ Ran
    /\ last.req.state = "present"
    /\ last.req.vol_state = vol_state
    /\ last.req.volumes /= {}

\* at most one call of the kind, carrying exactly the members; none when
\* there are no members to carry
CarriesExactly(kind, members) ==
    /\ Cardinality(CallsOfKind(kind)) <= 1
    /\ \A i \in CallsOfKind(kind) : last.calls[i].members = members
    /\ members = {} => CallsOfKind(kind) = {}

\* the step ran to its call, or returned False without an error when there
\* was nothing to carry
StepCarried(name, kind, members) ==
    StepResults(name) /= {}
        => IF members = {} THEN StepResults(name) = {"False"}
           ELSE Cardinality(CallsOfKind(kind)) = 1

\* C4: present-in-group adds exactly the requested members that are not in
\* the group and removes nothing, absent-in-group removes exactly the
\* requested members that are in the group and adds nothing, the other
\* members stay, and an empty list is a step without a call and without
\* an error
C4_MembershipDirective ==
    /\ HostGroupMembership("present-in-group")
          => LET E == last.pre[last.req.hostgroup_name].host
                 R == last.req.hosts
             IN  /\ CarriesExactly("add", R \ E)
                 /\ StepResults("add_hosts_to_hostgroup") /= {}
                 /\ StepCarried("add_hosts_to_hostgroup", "add", R \ E)
                 /\ CallsOfKind("remove") = {}
                 /\ E \subseteq hostgroups[HostGroupNameAfter].host
    /\ HostGroupMembership("absent-in-group")
          => LET E == last.pre[last.req.hostgroup_name].host
                 R == last.req.hosts
             IN  /\ CarriesExactly("remove", E \cap R)
                 /\ StepResults("remove_hosts_from_hostgroup") /= {}
                 /\ StepCarried("remove_hosts_from_hostgroup", "remove",
                                E \cap R)
                 /\ CallsOfKind("add") = {}
                 /\ (E \ R) \subseteq hostgroups[HostGroupNameAfter].host
                 /\ hostgroups[HostGroupNameAfter].host \subseteq E
    /\ CGMembership("present-in-group")
          => LET E == last.pre[last.req.cg_name].luns
                 R == {LunId(vol) : vol \in last.req.volumes}
             IN  /\ CarriesExactly("add", R \ E)
                 /\ StepCarried("add_volumes_to_cg", "add", R \ E)
                 /\ CallsOfKind("remove") = {}
                 /\ E \subseteq cgs[CGNameAfter].luns
    /\ CGMembership("absent-in-group")
          => LET E == last.pre[last.req.cg_name].luns
                 R == {LunId(vol) : vol \in last.req.volumes}
             IN  /\ CarriesExactly("remove", E \cap R)
                 /\ StepCarried("remove_volumes_from_cg", "remove", E \cap R)
                 /\ CallsOfKind("add") = {}
                 /\ (E \ R) \subseteq cgs[CGNameAfter].luns
                 /\ cgs[CGNameAfter].luns \subseteq E

\* existing hosts {a, b}, requested {b, c}, absent-in-group: the one call
\* removes b
C4_Witness ==
    /\ HostGroupMembership("absent-in-group")
    /\ last.pre[last.req.hostgroup_name].host \ last.req.hosts /= {}
    /\ last.req.hosts \ last.pre[last.req.hostgroup_name].host /= {}
    /\ Cardinality(CallsOfKind("remove")) = 1
    /\ \A i \in CallsOfKind("remove") :
          /\ last.calls[i].ok
          /\ last.calls[i].members =
                 last.pre[last.req.hostgroup_name].host \cap last.req.hosts
    /\ last.status = "ok"
    /\ last.changed

\* C5: state=absent on a consistency group with volumes ends in an error,
\* issues no delete call and leaves the group as it was
C5_DeleteRefusedWithVolumes ==
    (/\ module = "consistencygroup" /\ Ran
     /\ last.req.state = "absent"
     /\ last.pre[last.req.cg_name].existed
     /\ last.pre[last.req.cg_name].luns /= {})
        => /\ last.status = "failed"
           /\ last.calls = <<>>
           /\ cgs = last.pre

C5_Witness ==
    /\ module = "consistencygroup" /\ Ran /\ ~last.rerun
    /\ last.fault = "none"
    /\ last.req.state = "absent"
    /\ last.req.volumes = {}
    /\ last.req.vol_state = NoneV
    /\ last.pre[last.req.cg_name].luns /= {}
    /\ last.status = "failed"
    /\ StepResults("delete_cg") = {"refused"}

\* C6: state=absent on a host group that a masking view uses ends in an
\* error without a delete call to the array
C6_DeleteRefusedWithoutCall ==
    (/\ module = "hostgroup" /\ Ran
     /\ last.fault = "none"
     /\ last.req.state = "absent"
     /\ last.pre[last.req.hostgroup_name].existed
     /\ last.pre[last.req.hostgroup_name].maskingview)
        => /\ last.status = "failed"
           /\ CallsOfKind("delete") = {}

\* C7: a lookup of the entity that fails otherwise than by not-found ends
\* the run in a failure and no mutating call is issued (the snapshot module
\* has no lookup before its create call)
C7_LookupErrorIsTerminal ==
    (/\ module \in {"hostgroup", "maskingview", "consistencygroup", "volume"}
     /\ Ran /\ ~last.rerun
     /\ last.fault = "lookup")
        => /\ last.status = "failed"
           /\ last.calls = <<>>

\* C8: a request that places hosts in a host group and names a host that
\* the array does not have ends in an error before any mutating call
C8_MissingHostAborts ==
    (/\ module = "hostgroup" /\ Ran
     /\ last.fault = "none"
     /\ last.req.state = "present"
     /\ last.req.host_state = "present-in-group"
     /\ \E host \in last.req.hosts : host \notin ArrayHosts)
        => /\ last.status = "failed"
           /\ last.calls = <<>>
           /\ hostgroups = last.pre

\* a state=present request whose new name is the name the existing entity
\* has
RenameToCurrentName ==
    /\ Ran
    /\ last.req.state = "present"
    /\ \/ /\ module = "hostgroup"
          /\ last.pre[last.req.hostgroup_name].existed
          /\ last.req.new_name = last.req.hostgroup_name
       \/ /\ module = "maskingview"
          /\ last.pre[last.req.mv_name].existed
          /\ last.req.new_mv_name = last.req.mv_name
       \/ /\ module = "snapshot"
          /\ last.pre[last.req.snapshot_name] /= <<>>
          /\ last.req.new_snapshot_name = last.req.snapshot_name
       \/ /\ module = "consistencygroup"
          /\ last.pre[last.req.cg_name].existed
          /\ last.req.new_cg_name = last.req.cg_name
       \/ /\ module = "volume"
          /\ last.pre[last.req.vol_name].existed
          /\ last.req.new_vol_name = last.req.vol_name

\* C9: a rename to the current name issues no call that carries a new name,
\* and a run that issues no other call either reports changed=false
C9_RenameToCurrentNameIsNoop ==
    RenameToCurrentName
        => /\ \A i \in DOMAIN last.calls : last.calls[i].new_name = NoneV
           /\ (last.status = "ok" /\ last.calls = <<>>) => ~last.changed

C9_Witness ==
    /\ RenameToCurrentName
    /\ module = "hostgroup"
    /\ last.fault = "none"
    /\ last.status = "ok"
    /\ last.calls = <<>>
    /\ ~last.changed
    /\ last.details = last.pre[last.req.hostgroup_name]

\* the mapping of a flag value the way the three-valued semantics gives it
TriState(received_host_flags, host_flag_name) ==
    IF \/ host_flag_name \notin DOMAIN received_host_flags
       \/ received_host_flags[host_flag_name] \in {"unset", "Unset"}
    THEN [enabled |-> FALSE, override |-> FALSE]
    ELSE IF received_host_flags[host_flag_name] \in {"bFalse", "false", "False"}
    THEN [enabled |-> FALSE, override |-> TRUE]
    ELSE [enabled |-> TRUE, override |-> TRUE]

\* C10: at creation every host flag, and at modification every host flag
\* of the request, is mapped by the three-valued semantics: unset gives the
\* default, a false value gives disabled, any other value gives enabled
C10_TriStateFlags ==
    (module = "host_flags" /\ Ran)
        => \A k \in host_flags_list :
              (last.op = "create" \/ k \in DOMAIN last.received_host_flags)
                 => last.new_host_flags_dict[k]
                        = TriState(last.received_host_flags, k)

\* a host group request whose flags are all given as unset
UnsetFlagRequest ==
    /\ module = "hostgroup" /\ Ran
    /\ last.req.state = "present"
    /\ DOMAIN last.req.host_flags /= {}
    /\ \A k \in DOMAIN last.req.host_flags :
          last.req.host_flags[k] \in {"unset", "Unset"}

\* C11: after a successful run that sets a flag to unset, the flag read
\* back from the enabled and disabled flags of the array is the default,
\* and the same request run again issues no modify call
C11_UnsetRoundTrip ==
    /\ (UnsetFlagRequest /\ last.status = "ok")
          => /\ hostgroups[HostGroupNameAfter].existed
             /\ \A k \in DOMAIN last.req.host_flags \ {"consistent_lun"} :
                   _recreate_host_flag_dict(hostgroups[HostGroupNameAfter])[k]
                       = FlagDefault
    /\ (UnsetFlagRequest /\ last.rerun) => CallsOfKind("modify") = {}

\* the flag was enabled, the first run reset it with one modify call and
\* the second run found nothing to do
C11_Witness ==
    /\ UnsetFlagRequest /\ last.rerun
    /\ last.first.pre[last.req.hostgroup_name].enabled_flags /= {}
    /\ \E i \in DOMAIN last.first.calls :
          last.first.calls[i].kind = "modify" /\ last.first.calls[i].ok
    /\ last.status = "ok"
    /\ last.calls = <<>>
    /\ hostgroups[HostGroupNameAfter].enabled_flags = {}

\* cap_unit as perform_module_operation completes it
RequestCapUnit(p) ==
    IF p.size \notin {NoSize, 0} /\ p.cap_unit = NoneV THEN "GB" ELSE p.cap_unit

\* the change set of the last run on the volume it found
ChangeSet ==
    volume_modify_required(last.req.vol_name, last.pre[last.req.vol_name],
                           last.req, RequestCapUnit(last.req))

\* a completed state=present run on an existing volume
ExistingVolumeRun ==
    /\ module = "volume" /\ Ran
    /\ last.req.state = "present"
    /\ last.pre[last.req.vol_name].existed
    /\ last.status = "ok"

\* C12: the change set of an existing volume has a key exactly for each
\* attribute the caller supplied with a value other than the current one,
\* and the modify call is issued exactly when the change set is not empty
C12_MinimalChangeSet ==
    ExistingVolumeRun
        => LET obj_vol == last.pre[last.req.vol_name]
               p == last.req
           IN  /\ ChangeSet.name /= NoneV
                     <=> (p.new_vol_name /= NoneV
                            /\ p.new_vol_name /= p.vol_name)
               /\ ChangeSet.description /= NoneV
                     <=> (p.description /= NoneV
                            /\ p.description /= obj_vol.description)
               /\ ChangeSet.size /= NoSize
                     <=> (p.size /= NoSize
                            /\ RequestedBytes(p) /= obj_vol.size_total)
               /\ ChangeSet = NoUpdate <=> CallsOfKind("modify") = {}
               /\ \A i \in CallsOfKind("modify") :
                     last.calls[i].attrs = ChangeSet

\* the attributes an SDK call changes, if it changes any
ChangesAttributes(call) ==
    CASE call.op = "obj_vol.modify"
            -> call.attrs.description /= NoneV \/ call.attrs.size /= NoSize
      [] call.op = "cg_obj.modify" /\ call.kind \in {"add", "modify"}
            -> \E a \in DOMAIN call.attrs : call.attrs[a] /= NoneV
      [] OTHER -> call.kind = "modify"

\* the logical change kinds one SDK call applies
ChangeKinds(call) ==
    (IF call.kind \in {"modify", "rename"} THEN {} ELSE {call.kind})
        \cup (IF call.new_name /= NoneV THEN {"rename"} ELSE {})
        \cup (IF ChangesAttributes(call) THEN {"modify"} ELSE {})

\* no SDK call applies two change kinds
C13_NoBatching ==
    Ran => \A i \in DOMAIN last.calls :
              Cardinality(ChangeKinds(last.calls[i])) <= 1

\* no change kind is applied by two SDK calls
C13_OneCallPerKind ==
    Ran => \A i, j \in DOMAIN last.calls :
              i /= j => ChangeKinds(last.calls[i])
                            \cap ChangeKinds(last.calls[j]) = {}

\* a call that fails is the last call of the run
C13_NoRetry ==
    Ran => \A i \in DOMAIN last.calls : ~last.calls[i].ok => i = Len(last.calls)

\* C13: in a run each change kind is applied by at most one SDK call, no
\* SDK call applies two change kinds, and no call follows a call that failed
C13_OneCallPerChangeKind ==
    C13_NoBatching /\ C13_OneCallPerKind /\ C13_NoRetry

\* a masking view request that names a host and a host group
BothTargetsRequest ==
    /\ module = "maskingview" /\ Ran
    /\ last.req.host_name /= NoneV
    /\ last.req.hostgroup_name /= NoneV

\* C14: a masking view request with both host_name and hostgroup_name
\* fails before the masking view is compared with it, issues no call and
\* leaves the array as it was
C14_BothTargetsRejected ==
    BothTargetsRequest
        => /\ last.status = "failed"
           /\ last.steps = <<>>
           /\ last.calls = <<>>
           /\ ~last.changed
           /\ maskingviews = last.pre

\* the request would otherwise have created the masking view
C14_Witness ==
    /\ BothTargetsRequest
    /\ last.req.state = "present"
    /\ last.req.portgroup_name /= NoneV
    /\ last.req.sg_name /= NoneV
    /\ last.req.new_mv_name = NoneV
    /\ last.fault = "none"
    /\ ~last.pre[last.req.mv_name].existed
    /\ last.status = "failed"
    /\ ~maskingviews[last.req.mv_name].existed

\* the masking view is as it was before the run, under its name or, after
\* a rename, under a name that was free, or it has been deleted
MaskingViewKept(n) ==
    \/ maskingviews[n] = last.pre[n]
    \/ /\ ~maskingviews[n].existed
       /\ \/ \E i \in CallsOfKind("delete") :
                last.calls[i].ok /\ last.calls[i].target = n
          \/ \E m \in MaskingViewNames :
                ~last.pre[m].existed /\ maskingviews[m] = last.pre[n]

\* the request names a port group, storage group, host or host group
\* other than the one of the masking view
DiffersFromMaskingView(mv, p) ==
    \/ p.portgroup_name /= NoneV /\ p.portgroup_name /= mv.portGroupId
    \/ p.sg_name /= NoneV /\ p.sg_name /= mv.storageGroupId
    \/ p.host_name /= NoneV /\ p.host_name /= mv.hostId
    \/ p.hostgroup_name /= NoneV /\ p.hostgroup_name /= mv.hostGroupId

\* a masking view that exists keeps its port group, storage group and
\* host or host group through every run
C15_ComponentsKept ==
    (module = "maskingview" /\ Ran)
        => \A n \in MaskingViewNames : last.pre[n].existed => MaskingViewKept(n)

\* a request that differs from the masking view fails without a call
C15_DifferenceRefused ==
    (/\ module = "maskingview" /\ Ran
     /\ last.pre[last.req.mv_name].existed
     /\ DiffersFromMaskingView(last.pre[last.req.mv_name], last.req))
        => last.status = "failed" /\ last.calls = <<>>

\* C15: a masking view that exists keeps its port group, storage group and
\* host or host group through every run, and a request that names another
\* one ends in an error without a mutating call
C15_OnlyNameChanges == C15_ComponentsKept /\ C15_DifferenceRefused

\* a snapshot request with state=present and a ttl, and neither a new name
\* nor a link status
SnapshotCreateRequest ==
    /\ module = "snapshot" /\ Ran
    /\ last.req.state = "present"
    /\ last.req.ttl /= NoneV
    /\ last.req.new_snapshot_name = NoneV
    /\ last.req.link_status = NoneV

\* C16: a create request issues exactly one create call for the snapshot
\* name, whether or not the name is in use, and unless the array rejects
\* the call the run reports changed=true and the snapshot has one
\* generation more
C16_CreateAlwaysCreates ==
    SnapshotCreateRequest
        => /\ Len(last.calls) = 1
           /\ last.calls[1].kind = "create"
           /\ last.calls[1].target = last.req.snapshot_name
           /\ last.fault /= "call"
                 => /\ last.calls[1].ok
                    /\ last.status = "ok"
                    /\ last.changed
                    /\ Len(snapshots[last.req.snapshot_name])
                          = Len(last.pre[last.req.snapshot_name]) + 1
           /\ last.fault = "call" => last.status = "failed"

\* the name was in use before the first run, and both runs created a
\* snapshot
C16_Witness ==
    /\ SnapshotCreateRequest /\ last.rerun
    /\ last.first.pre[last.req.snapshot_name] /= <<>>
    /\ last.first.changed
    /\ last.changed
    /\ Len(snapshots[last.req.snapshot_name])
          = Len(last.first.pre[last.req.snapshot_name]) + 2

\* a request for one of the operations that act on one generation of a
\* snapshot: delete, link or unlink, rename
GenerationOperation ==
    /\ module = "snapshot" /\ Ran
    /\ \/ last.req.state = "absent"
       \/ last.req.state = "present" /\ last.req.link_status /= NoneV
       \/ last.req.state = "present" /\ last.req.new_snapshot_name /= NoneV

\* C17 (generation omitted): the run issues no mutating call and fails
C17_MissingGenerationFails ==
    (GenerationOperation /\ last.req.generation = NoGeneration)
        => /\ last.calls = <<>>
           /\ last.status = "failed"

\* C17 (rename): a rename request with a generation other than 0 issues
\* no rename call
C17_RenameOnlyGenerationZero ==
    (module = "snapshot" /\ Ran /\ last.req.generation /= 0)
        => CallsOfKind("rename") = {}

\* C17: generation is mandatory for link, unlink, rename and delete, and
\* rename is limited to generation 0
C17_GenerationMandatory ==
    C17_MissingGenerationFails /\ C17_RenameOnlyGenerationZero

\* the name the volume of the last run has after it
VolumeNameAfter ==
    IF \E i \in CallsOfKind("modify") :
          last.calls[i].ok /\ last.calls[i].attrs.name /= NoneV
    THEN last.req.new_vol_name ELSE last.req.vol_name

\* a completed run with description="" on an existing volume
EmptyDescriptionRequest ==
    /\ module = "volume" /\ Ran
    /\ last.req.state = "present"
    /\ last.req.description = ""
    /\ last.status = "ok"
    /\ last.pre[last.req.vol_name].existed

\* C18: description="" on a volume with a description puts the description
\* in the change set, is applied by one modify call and reports
\* changed=true; the volume then has no description, and the second run
\* reports changed=false
C18_DescriptionRemoved ==
    /\ (EmptyDescriptionRequest /\ ~last.rerun
           /\ last.pre[last.req.vol_name].description /= "")
          => /\ ChangeSet.description = ""
             /\ Cardinality(CallsOfKind("modify")) = 1
             /\ last.changed
             /\ luns[VolumeNameAfter].description = ""
    /\ (EmptyDescriptionRequest /\ last.rerun
           /\ last.first.pre[last.req.vol_name].description /= "")
          => ~last.changed

\* a state=present request, no call failing, for a host group that was
\* absent before the first run, with no hosts to put in it
EmptyHostGroupRequest ==
    /\ module = "hostgroup" /\ Ran
    /\ last.req.state = "present"
    /\ last.fault = "none"
    /\ \/ last.req.hosts = {}
       \/ last.req.host_state = NoneV
       \/ last.req.host_state = "absent-in-group"
    /\ IF last.rerun
       THEN ~last.first.pre[last.req.hostgroup_name].existed
       ELSE ~last.pre[last.req.hostgroup_name].existed

\* C19 (first run): the group is created without members by one create
\* call, and the run reports changed=true with the details of the group
C19_EmptyCreated ==
    (EmptyHostGroupRequest /\ ~last.rerun)
        => /\ Len(last.calls) = 1
           /\ last.calls[1].kind = "create"
           /\ last.calls[1].target = last.req.hostgroup_name
           /\ last.calls[1].members = {}
           /\ last.calls[1].ok
           /\ last.status = "ok" /\ last.changed
           /\ last.details.existed
           /\ hostgroups[last.req.hostgroup_name].existed
           /\ hostgroups[last.req.hostgroup_name].host = {}

\* C19 (second run): the group is found, no create call is issued and the
\* run reports changed=false
C19_EmptyFound ==
    (EmptyHostGroupRequest /\ last.rerun)
        => /\ last.pre[last.req.hostgroup_name].existed
           /\ CallsOfKind("create") = {}
           /\ ~last.changed

\* C19: creating an empty host group is allowed and idempotent
C19_EmptyHostGroupIdempotent == C19_EmptyCreated /\ C19_EmptyFound

\* the calls of run r that changed the array
OwnSucceededCalls(r) ==
    {i \in 1..Len(last[r].calls) : last[r].calls[i].ok}

\* the create calls of run r
OwnCreateCalls(r) ==
    {i \in 1..Len(last[r].calls) : last[r].calls[i].kind = "create"}

\* C20 (changed): a run reports changed=true only if one of its own
\* mutating calls succeeded
C20_ChangedByOwnCall ==
    \A r \in 1..NumRuns :
        (pc[r] = "done" /\ last[r].changed) => OwnSucceededCalls(r) /= {}

\* C20 (rejected create): a run whose create call the array rejects ends
\* in failure
C20_RejectedCreateFails ==
    \A r \in 1..NumRuns :
        (pc[r] = "done" /\ \E i \in OwnCreateCalls(r) : ~last[r].calls[i].ok)
            => last[r].status = "failed" /\ ~last[r].changed

\* C20: without locking, concurrent creates of one entity end with one
\* failing run, and changed=true always comes from a run's own call
C20_ConcurrentCreate == C20_ChangedByOwnCall /\ C20_RejectedCreateFails

\* every run looked the entity up before any created it, every run issued
\* create with no fault injected, one was accepted and another rejected
C20_Witness ==
    /\ \A r \in 1..NumRuns :
          /\ pc[r] = "done"
          /\ last[r].fault = "none"
          /\ ~last[r].seen.existed
          /\ OwnCreateCalls(r) /= {}
    /\ \E r \in 1..NumRuns :
          /\ last[r].status = "failed"
          /\ \E i \in OwnCreateCalls(r) : ~last[r].calls[i].ok
    /\ \E r \in 1..NumRuns :
          /\ last[r].changed
          /\ \E i \in OwnCreateCalls(r) : last[r].calls[i].ok

\* a run of the volume module with a size other than 0 on a volume the
\* array holds
SizedRequestOnVolume ==
    /\ module = "volume" /\ Ran
    /\ last.req.size \notin {NoSize, 0}
    /\ last.pre[last.req.vol_name].existed

\* the modify calls of the last run that carry a size
ResizeCalls ==
    {i \in CallsOfKind("modify") : last.calls[i].attrs.size /= NoSize}

\* C21 (rejected input): size=0, or cap_unit without size, ends the run in
\* an error whatever the array holds and whatever the lookup would return,
\* with no call issued
C21_SizeInputRejected ==
    (/\ module = "volume" /\ Ran
     /\ \/ last.req.size = 0
        \/ last.req.size = NoSize /\ last.req.cap_unit /= NoneV)
        => /\ last.status = "failed"
           /\ last.calls = <<>>
           /\ last.steps = <<>>
           /\ luns = last.pre

\* C21 (comparison): with S the size of the volume and R the requested
\* size in bytes, R < S ends in an error without a call, R = S leaves size
\* out of the change set, R > S puts size=R in it, and a completed
\* state=present run has applied exactly that
C21_SizeCompared ==
    SizedRequestOnVolume
        => LET S == last.pre[last.req.vol_name].size_total
               R == RequestedBytes(last.req)
           IN  /\ R < S => /\ last.status = "failed"
                           /\ last.calls = <<>>
                           /\ luns = last.pre
               /\ R = S => /\ ChangeSet.size = NoSize
                           /\ ResizeCalls = {}
               /\ R > S => /\ ChangeSet.size = R
                           /\ \A i \in ResizeCalls :
                                 last.calls[i].attrs.size = R
                           /\ (last.status = "ok"
                                 /\ last.req.state = "present")
                                 => /\ ResizeCalls /= {}
                                    /\ luns[VolumeNameAfter].size_total = R

\* C21: the size rules of an existing volume
C21_SizeRules == C21_SizeInputRejected /\ C21_SizeCompared

\* a volume was expanded by a size given without cap_unit, taken as GB
C21_Witness ==
    /\ SizedRequestOnVolume
    /\ last.req.cap_unit = NoneV
    /\ last.status = "ok"
    /\ ResizeCalls /= {}
    /\ luns[VolumeNameAfter].size_total = last.req.size * GB
    /\ last.pre[last.req.vol_name].size_total < last.req.size * GB

\* a completed run on an existing host group with host_flags and a
\* new_name other than the name of the group
FlagsAndRenameRequest ==
    /\ module = "hostgroup" /\ Ran
    /\ last.req.state = "present"
    /\ last.pre[last.req.hostgroup_name].existed
    /\ DOMAIN last.req.host_flags /= {}
    /\ last.req.new_name /= NoneV
    /\ last.req.new_name /= last.req.hostgroup_name
    /\ last.fault = "none"
    /\ last.status = "ok"

\* the flag comparison of the last run found nothing to change
FlagsAsRequested ==
    \E i \in 1..Len(last.steps) :
        /\ last.steps[i].step = "modify_host_flags"
        /\ last.steps[i].ret = "exit"

\* C22: with host_flags and a different new_name on an existing group the
\* rename call is issued and the group carries the new name, whether or
\* not the flags differ from the current ones
C22_RenameReachedAfterFlags ==
    FlagsAndRenameRequest
        => /\ CallsOfKind("rename") /= {}
           /\ hostgroups[last.req.new_name].existed
           /\ ~hostgroups[last.req.hostgroup_name].existed

\* the last run carried a new name, and the entity its request names was
\* not on the array
NewNameForAbsentEntity ==
    /\ Ran
    /\ \/ /\ module = "hostgroup"
          /\ last.req.new_name /= NoneV
          /\ ~last.pre[last.req.hostgroup_name].existed
       \/ /\ module = "maskingview"
          /\ last.req.new_mv_name /= NoneV
          /\ ~last.pre[last.req.mv_name].existed
       \/ /\ module = "consistencygroup"
          /\ last.req.new_cg_name /= NoneV
          /\ ~last.pre[last.req.cg_name].existed
       \/ /\ module = "volume"
          /\ last.req.new_vol_name /= NoneV
          /\ ~last.pre[last.req.vol_name].existed

\* C23: a request that supplies a new name issues no create call when the
\* entity it names does not exist, and leaves the array as it was
C23_NewNameNeverCreates ==
    NewNameForAbsentEntity
        => /\ CallsOfKind("create") = {}
           /\ ~last.changed

\* a completed state=present run with mapping_state=unmapped and a host
UnmapRequest ==
    /\ module = "volume" /\ Ran
    /\ last.req.state = "present"
    /\ last.req.mapping_state = "unmapped"
    /\ last.req.host_name /= NoneV
    /\ last.status = "ok"

\* C24 (existing volume): after the run the volume is not mapped to the
\* host of the request
C24_UnmappedWhenExisting ==
    (UnmapRequest /\ last.pre[last.req.vol_name].existed)
        => /\ luns[VolumeNameAfter].existed
           /\ last.req.host_name \notin luns[VolumeNameAfter].host_access

\* C24 (created volume): a volume the run creates is not mapped to the
\* host of the request
C24_UnmappedWhenCreated ==
    (UnmapRequest /\ ~last.pre[last.req.vol_name].existed)
        => /\ luns[VolumeNameAfter].existed
           /\ last.req.host_name \notin luns[VolumeNameAfter].host_access

\* C24: after a successful run with mapping_state=unmapped and host H the
\* volume is not mapped to H, whether it existed or the run created it
C24_UnmappedAfterRun == C24_UnmappedWhenExisting /\ C24_UnmappedWhenCreated

====
